---- MODULE Spec2Model ----
(***************************************************************************)
(* Model of the portal site's DataManager (js/dataManager.js) and of the   *)
(* presenter code of js/ui.js that reads and writes it.                    *)
(*                                                                         *)
(* JavaScript arrays and objects are references.  The store's `data` is    *)
(* often the very array that `allPortals[portalId]` holds, and             *)
(* Array.prototype.filter returns a new array holding the same category    *)
(* objects.  The model therefore keeps a small heap: `objs` is the         *)
(* sequence of category objects, `arrs` the sequence of category arrays    *)
(* (each a sequence of indices into objs), `data` an index into arrs and   *)
(* `allPortals` a map from portal ids to indices into arrs.                *)
(***************************************************************************)
EXTENDS Integers, Sequences, FiniteSets, Bags, TLC

(***************************************************************************)
(* Bounds of the model.                                                    *)
(***************************************************************************)
\* Date.now() takes the values 1..MaxTime (0 is the time of an earlier session).
MaxTime == 2
\* No operation is started once onDirty has been invoked MaxDirty times.
MaxDirty == 1

(***************************************************************************)
(* Values.                                                                 *)
(***************************************************************************)
\* An id string `${prefix}_${time}_${random}` is the triple of its parts.
IdOf(prefix, t, r) == <<prefix, t, r>>
\* 'nonExistentCat' / 'nonExistentLink' of the tests: an id no entity has.
NoSuchId == IdOf("none", 0, 0)
\* The value of Array.prototype.find when nothing matches.
Undefined == 0

PortalIds == {"default", "portal_1"}
\* `portal_${Date.now()}`, the id of a portal created at the time t.
CreatedIds == <<"portal_t1", "portal_t2", "portal_t3", "portal_t4">>
\* Object.keys order of the portal maps of the model.
PortalOrder == <<"default", "portal_1">> \o CreatedIds
\* The title argument of addCategory and updateCategory.
Titles == {"N"}
LinkFields == {"id", "title", "url"}

\* A link is an object: a function from the fields it has to their values.
Link(id, title) == [f \in {"id", "title"} |-> IF f = "id" THEN id ELSE title]
\* A category object.
Category(id, title, isOpen, links) ==
    [id |-> id, title |-> title, isOpen |-> isOpen, links |-> links]

\* { ...a, ...b } and Object.assign(a, b): the fields of b win.
Assign(a, b) ==
    [f \in DOMAIN a \cup DOMAIN b |-> IF f \in DOMAIN b THEN b[f] ELSE a[f]]

\* The empty portal map {}.
EmptyMap == [p \in {} |-> 0]

(***************************************************************************)
(* Sequence helpers: the Array.prototype methods the store uses.           *)
(***************************************************************************)
Min(a, b) == IF a < b THEN a ELSE b

\* array.filter(...), keeping order: kept is the set of the (1-based)
\* positions of the elements that pass the test.
Filter(s, kept) ==
    LET F[i \in 0..Len(s)] ==
            IF i = 0 THEN <<>>
            ELSE IF i \in kept THEN Append(F[i - 1], s[i]) ELSE F[i - 1]
    IN  F[Len(s)]

\* array.splice(start, deleteCount, ...items) with 0 <= start, as the array
\* is afterwards; start is a 0-based index and is clamped to the length.
Splice(s, start, deleteCount, items) ==
    LET from == Min(start, Len(s))
        del  == Min(deleteCount, Len(s) - from)
    IN  SubSeq(s, 1, from) \o items \o SubSeq(s, from + del + 1, Len(s))

\* array.find(...): the first of the (1-based) positions of the elements
\* that pass the test, or 0 when the set matches of these positions is empty.
FindIndex(matches) ==
    IF matches = {} THEN 0
    ELSE CHOOSE i \in matches : \A j \in matches : i <= j

\* s without its repeated elements, first occurrences kept in order.
RECURSIVE Dedupe(_)
Dedupe(s) ==
    IF s = <<>> THEN <<>>
    ELSE LET init == Dedupe(SubSeq(s, 1, Len(s) - 1))
             last == s[Len(s)]
         IN  IF \E i \in 1..Len(init) : init[i] = last THEN init
             ELSE Append(init, last)

\* The concatenation of the sequences of a sequence.
RECURSIVE Flatten(_)
Flatten(ss) == IF ss = <<>> THEN <<>> ELSE Head(ss) \o Flatten(Tail(ss))

PositionIn(s, x) == CHOOSE i \in 1..Len(s) : s[i] = x

(***************************************************************************)
(* The state.                                                              *)
(***************************************************************************)
VARIABLES
    objs,               \* heap: the category objects
    arrs,               \* heap: the category arrays (sequences of object indices)
    data,               \* DataManager.data: an index into arrs
    allPortals,         \* DataManager.allPortals: portal id -> index into arrs
    hasUnsavedChanges,  \* DataManager.hasUnsavedChanges
    onDirtyCalls,       \* how many times the onDirty callback was invoked
    now,                \* Date.now()
    generated,          \* the bag of ids _generateId has returned
    downloaded,         \* the text of the data.json that save downloaded last
    view,               \* UI.render: the categories getData() returned to it
    got,                \* the array a caller of getData() holds: an index into
                        \* arrs, or 0 when there is none
    lastOp,             \* the call that was made last, with its arguments
    loads,              \* the calls of load() whose fetch was started, in the
                        \* order they were started: portal id, and the
                        \* response once it has resolved
    draggedInfo,        \* UI.draggedInfo: the item being dragged
    placeholder,        \* UI.placeholder: where the drag placeholder is
    initialized,        \* whether ui.init() has run (listeners registered)
    errorArea,          \* whether #errorArea is displayed
    saveBtnDisabled,    \* #saveChangesBtn.disabled
    config,             \* ConfigManager.config
    localStorage        \* the item portalAppConfig of localStorage

vars == <<objs, arrs, data, allPortals, hasUnsavedChanges, onDirtyCalls,
          now, generated, downloaded, view, got, lastOp, loads,
          draggedInfo, placeholder, initialized, errorArea, saveBtnDisabled,
          config, localStorage>>

\* The drag state of the UI object.
drag == <<draggedInfo, placeholder>>
\* The page around the store, and the configuration.
shell == <<initialized, errorArea, saveBtnDisabled, config, localStorage>>
page == <<drag, shell>>

\* What a call on the store alone leaves as it is.
app == <<loads, page>>

\* undefined, as the catIndex of { type: 'category', index }.
NoIndex == 0 - 1
NoDrag == [type |-> "null", catIndex |-> NoIndex, index |-> NoIndex]
NoPlaceholder == [parent |-> "null", catIndex |-> NoIndex, index |-> NoIndex]

\* defaultConfig: the active portal id and the ids of config.portals.
defaultConfig == [activePortalId |-> "default", portals |-> {"default"}]
\* localStorage.getItem(CONFIG_KEY) when nothing was stored.
NoItem == [activePortalId |-> "null", portals |-> {}]

\* The DataManager instance (with the heap it points into) as one value.
Store == [objs |-> objs, arrs |-> arrs, data |-> data, allPortals |-> allPortals,
          hasUnsavedChanges |-> hasUnsavedChanges, onDirtyCalls |-> onDirtyCalls,
          got |-> got]

\* The portal ids of a portal map, in key order.
PortalKeys(map) ==
    Filter(PortalOrder, {i \in 1..Len(PortalOrder) : PortalOrder[i] \in DOMAIN map})

\* Garbage collection: the arrays and objects reachable from data, from
\* allPortals and from the array a caller holds, renumbered in the order
\* they are reached.
Collect(s) ==
    LET keys     == PortalKeys(s.allPortals)
        roots    == <<s.data>> \o [i \in 1..Len(keys) |-> s.allPortals[keys[i]]]
                        \o (IF s.got = 0 THEN <<>> ELSE <<s.got>>)
        arrOrder == Dedupe(roots)
        objOrder == Dedupe(Flatten([i \in 1..Len(arrOrder) |-> s.arrs[arrOrder[i]]]))
    IN  [s EXCEPT
           !.objs = [k \in 1..Len(objOrder) |-> s.objs[objOrder[k]]],
           !.arrs = [k \in 1..Len(arrOrder) |->
                       [j \in 1..Len(s.arrs[arrOrder[k]]) |->
                           PositionIn(objOrder, s.arrs[arrOrder[k]][j])]],
           !.data = PositionIn(arrOrder, s.data),
           !.got = IF s.got = 0 THEN 0 ELSE PositionIn(arrOrder, s.got),
           !.allPortals = [p \in DOMAIN s.allPortals |->
                              PositionIn(arrOrder, s.allPortals[p])]]

\* The categories of the array a of the heap of s, as values.
ArrayValue(s, a) == [i \in 1..Len(s.arrs[a]) |-> s.objs[s.arrs[a][i]]]

\* The store's category collection, as a value.
DataOf(s) == ArrayValue(s, s.data)

\* new array literal holding new objects for the category values cats (what
\* JSON.parse builds for an array of categories): the store and the new index.
NewArray(s, cats) ==
    LET base == Len(s.objs)
    IN  [store |-> [s EXCEPT !.objs = s.objs \o cats,
                             !.arrs = Append(s.arrs,
                                        [i \in 1..Len(cats) |-> base + i])],
         ref   |-> Len(s.arrs) + 1]

(***************************************************************************)
(* DataManager: lookups, dirty tracking, id generation.                    *)
(***************************************************************************)

\* getCategory(id): the index in objs of the first category of data with that
\* id, or Undefined.
getCategory(s, id) ==
    LET arr == s.arrs[s.data]
        i == FindIndex({k \in 1..Len(arr) : s.objs[arr[k]].id = id})
    IN  IF i = 0 THEN Undefined ELSE arr[i]

\* cat.links.find(l => l.id === linkId): the position of the link, or 0.
\* A link without an id field has id undefined, which equals no id.
findLink(links, linkId) ==
    FindIndex({k \in 1..Len(links) :
                  "id" \in DOMAIN links[k] /\ links[k]["id"] = linkId})

\* getLink(catId, linkId): the link, or Undefined.
getLink(s, catId, linkId) ==
    LET cat == getCategory(s, catId)
    IN  IF cat = Undefined THEN Undefined
        ELSE LET i == findLink(s.objs[cat].links, linkId)
             IN  IF i = 0 THEN Undefined ELSE s.objs[cat].links[i]

markAsDirty(s) ==
    [s EXCEPT !.hasUnsavedChanges = TRUE, !.onDirtyCalls = @ + 1]

\* markAsClean that invokes onDirty, as markAsDirty does.
markAsCleanNotifying(s) ==
    [s EXCEPT !.hasUnsavedChanges = FALSE, !.onDirtyCalls = @ + 1]

markAsClean(s) == [s EXCEPT !.hasUnsavedChanges = FALSE]

\* _generateId(prefix) when Date.now() is t and Math.floor(Math.random()*1000) is r.
_generateId(prefix, t, r) == IdOf(prefix, t, r)

(***************************************************************************)
(* DataManager: category operations.                                       *)
(***************************************************************************)
addCategory(s, title, t, r) ==
    LET cat == Category(_generateId("cat", t, r), title, TRUE, <<>>)
        o   == Len(s.objs) + 1
    IN  markAsDirty([s EXCEPT !.objs = Append(s.objs, cat),
                              !.arrs[s.data] = Append(@, o)])

\* updateCategory without the markAsDirty() call.
updateCategoryQuiet(s, id, title) ==
    LET cat == getCategory(s, id)
    IN  IF cat # Undefined
        THEN [s EXCEPT !.objs[cat].title = title]
        ELSE s

updateCategory(s, id, title) ==
    LET cat == getCategory(s, id)
    IN  IF cat # Undefined
        THEN markAsDirty([s EXCEPT !.objs[cat].title = title])
        ELSE s

\* this.data = this.data.filter(...): data becomes a NEW array; the array it
\* was (which allPortals may still hold) keeps all its elements.
\* deleteCategory that fills the place of the removed category with the last
\* category instead of closing the gap.
deleteCategorySwapRemove(s, id) ==
    LET arr == s.arrs[s.data]
        i   == FindIndex({k \in 1..Len(arr) : s.objs[arr[k]].id = id})
        swapped == [k \in 1..(Len(arr) - 1) |-> IF k = i THEN arr[Len(arr)] ELSE arr[k]]
        s2  == [s EXCEPT !.arrs = Append(s.arrs, swapped), !.data = Len(s.arrs) + 1]
    IN  IF i # 0 THEN markAsDirty(s2) ELSE s

deleteCategory(s, id) ==
    LET initialLength == Len(s.arrs[s.data])
        arr == s.arrs[s.data]
        filtered == Filter(arr, {k \in 1..Len(arr) : s.objs[arr[k]].id # id})
        s2 == [s EXCEPT !.arrs = Append(s.arrs, filtered),
                        !.data = Len(s.arrs) + 1]
    IN  IF Len(filtered) < initialLength THEN markAsDirty(s2) ELSE s2

\* moveCategory that returns early when fromIndex equals toIndex.
moveCategorySkipSame(s, fromIndex, toIndex) ==
    LET arr == s.arrs[s.data]
    IN  IF fromIndex < 0 \/ fromIndex >= Len(arr) \/ toIndex < 0 \/ toIndex > Len(arr)
           \/ fromIndex = toIndex
        THEN s
        ELSE LET item    == arr[fromIndex + 1]
                 removed == Splice(arr, fromIndex, 1, <<>>)
                 moved   == Splice(removed, toIndex, 0, <<item>>)
             IN  markAsDirty([s EXCEPT !.arrs[s.data] = moved])

\* moveCategory that inserts the item before it removes it.
moveCategoryInsertFirst(s, fromIndex, toIndex) ==
    LET arr == s.arrs[s.data]
    IN  IF fromIndex < 0 \/ fromIndex >= Len(arr) \/ toIndex < 0 \/ toIndex > Len(arr)
        THEN s
        ELSE LET item     == arr[fromIndex + 1]
                 inserted == Splice(arr, toIndex, 0, <<item>>)
                 moved    == Splice(inserted,
                                    IF toIndex <= fromIndex THEN fromIndex + 1
                                    ELSE fromIndex, 1, <<>>)
             IN  markAsDirty([s EXCEPT !.arrs[s.data] = moved])

\* Indices are 0-based, as in the source.
moveCategory(s, fromIndex, toIndex) ==
    LET arr == s.arrs[s.data]
    IN  IF fromIndex < 0 \/ fromIndex >= Len(arr) \/ toIndex < 0 \/ toIndex > Len(arr)
        THEN s
        ELSE LET item    == arr[fromIndex + 1]
                 removed == Splice(arr, fromIndex, 1, <<>>)
                 moved   == Splice(removed, toIndex, 0, <<item>>)
             IN  markAsDirty([s EXCEPT !.arrs[s.data] = moved])

(***************************************************************************)
(* DataManager: link operations.                                           *)
(***************************************************************************)
\* { id: this._generateId('link'), ...linkData }
newLink(linkData, t, r) ==
    Assign([f \in {"id"} |-> _generateId("link", t, r)], linkData)

addLink(s, catId, linkData, t, r) ==
    LET cat == getCategory(s, catId)
    IN  IF cat # Undefined
        THEN markAsDirty([s EXCEPT !.objs[cat].links =
                                       Append(@, newLink(linkData, t, r))])
        ELSE s

\* updateLink that puts linkData in the place of the link.
updateLinkReplacing(s, catId, linkId, linkData) ==
    LET cat == getCategory(s, catId)
    IN  IF cat # Undefined
        THEN LET i == findLink(s.objs[cat].links, linkId)
             IN  IF i # 0
                 THEN markAsDirty([s EXCEPT !.objs[cat].links[i] = linkData])
                 ELSE s
        ELSE s

updateLink(s, catId, linkId, linkData) ==
    LET cat == getCategory(s, catId)
    IN  IF cat # Undefined
        THEN LET i == findLink(s.objs[cat].links, linkId)
             IN  IF i # 0
                 THEN markAsDirty([s EXCEPT !.objs[cat].links[i] =
                                                Assign(@, linkData)])
                 ELSE s
        ELSE s

\* deleteLink that marks the store dirty whenever the category exists.
deleteLinkAlwaysDirty(s, catId, linkId) ==
    LET cat == getCategory(s, catId)
    IN  IF cat # Undefined
        THEN LET links == s.objs[cat].links
                 filtered == Filter(links, {k \in 1..Len(links) :
                                 ~("id" \in DOMAIN links[k] /\ links[k]["id"] = linkId)})
             IN  markAsDirty([s EXCEPT !.objs[cat].links = filtered])
        ELSE s

deleteLink(s, catId, linkId) ==
    LET cat == getCategory(s, catId)
    IN  IF cat # Undefined
        THEN LET links == s.objs[cat].links
                 initialLinksLength == Len(links)
                 filtered == Filter(links, {k \in 1..Len(links) :
                                 ~("id" \in DOMAIN links[k] /\ links[k]["id"] = linkId)})
                 s2 == [s EXCEPT !.objs[cat].links = filtered]
             IN  IF Len(filtered) < initialLinksLength THEN markAsDirty(s2) ELSE s2
        ELSE s

\* moveLink that marks the store dirty only when the order of the links changed.
moveLinkDirtyOnChange(s, catIndex, fromIndex, toIndex) ==
    LET arr == s.arrs[s.data]
        cat == IF catIndex >= 0 /\ catIndex < Len(arr) THEN arr[catIndex + 1]
               ELSE Undefined
    IN  IF cat = Undefined THEN s
        ELSE LET links == s.objs[cat].links
             IN  IF fromIndex < 0 \/ fromIndex >= Len(links)
                    \/ toIndex < 0 \/ toIndex > Len(links)
                 THEN s
                 ELSE LET item    == links[fromIndex + 1]
                          removed == Splice(links, fromIndex, 1, <<>>)
                          moved   == Splice(removed, toIndex, 0, <<item>>)
                      IN  IF moved = links THEN s
                          ELSE markAsDirty([s EXCEPT !.objs[cat].links = moved])

\* moveLink without the upper limit on toIndex.
moveLinkNoUpperLimit(s, catIndex, fromIndex, toIndex) ==
    LET arr == s.arrs[s.data]
        cat == IF catIndex >= 0 /\ catIndex < Len(arr) THEN arr[catIndex + 1]
               ELSE Undefined
    IN  IF cat = Undefined THEN s
        ELSE LET links == s.objs[cat].links
             IN  IF fromIndex < 0 \/ fromIndex >= Len(links) \/ toIndex < 0
                 THEN s
                 ELSE LET item    == links[fromIndex + 1]
                          removed == Splice(links, fromIndex, 1, <<>>)
                          moved   == Splice(removed, toIndex, 0, <<item>>)
                      IN  markAsDirty([s EXCEPT !.objs[cat].links = moved])

\* this.data[catIndex] is undefined when catIndex is no index of data.
moveLink(s, catIndex, fromIndex, toIndex) ==
    LET arr == s.arrs[s.data]
        cat == IF catIndex >= 0 /\ catIndex < Len(arr) THEN arr[catIndex + 1]
               ELSE Undefined
    IN  IF cat = Undefined THEN s
        ELSE LET links == s.objs[cat].links
             IN  IF fromIndex < 0 \/ fromIndex >= Len(links)
                    \/ toIndex < 0 \/ toIndex > Len(links)
                 THEN s
                 ELSE LET item    == links[fromIndex + 1]
                          removed == Splice(links, fromIndex, 1, <<>>)
                          moved   == Splice(removed, toIndex, 0, <<item>>)
                      IN  markAsDirty([s EXCEPT !.objs[cat].links = moved])

\* addBulkLinks that calls markAsDirty() once for every link it adds.
RECURSIVE markAsDirtyTimes(_, _)
markAsDirtyTimes(s, n) == IF n = 0 THEN s ELSE markAsDirtyTimes(markAsDirty(s), n - 1)
addBulkLinksDirtyPerLink(s, catId, links, ts, rs) ==
    LET cat == getCategory(s, catId)
    IN  IF cat # Undefined
        THEN LET newLinks == [i \in 1..Len(links) |-> newLink(links[i], ts[i], rs[i])]
             IN  markAsDirtyTimes([s EXCEPT !.objs[cat].links = @ \o newLinks],
                                  Len(links))
        ELSE s

\* links.map(link => ({ id: this._generateId('link'), ...link })): the id of
\* the i-th link is generated at the time ts[i] with the random number rs[i].
addBulkLinks(s, catId, links, ts, rs) ==
    LET cat == getCategory(s, catId)
    IN  IF cat # Undefined
        THEN LET newLinks == [i \in 1..Len(links) |-> newLink(links[i], ts[i], rs[i])]
             IN  markAsDirty([s EXCEPT !.objs[cat].links = @ \o newLinks])
        ELSE s

(***************************************************************************)
(* JSON.  A parsed JSON value is a record: kind "array" (an array of       *)
(* categories, cats), kind "portals" (an object with a portals map),       *)
(* kind "object" (an object without portals, such as {}), kind "null" and  *)
(* kind "primitive" (a number, string or boolean).  A JSON text is the     *)
(* pair of its first token and its members; an object's text is the        *)
(* sequence of its <<key, value text>> members.                            *)
(***************************************************************************)
JsonArray(cats) == [kind |-> "array", cats |-> cats, portals |-> EmptyMap]
JsonPortals(map) == [kind |-> "portals", cats |-> <<>>, portals |-> map]
JsonOther(kind) == [kind |-> kind, cats |-> <<>>, portals |-> EmptyMap]

\* Key order of a link object in a JSON text.
LinkFieldOrder == <<"id", "title", "url">>

stringifyLink(l) ==
    LET keys == Filter(LinkFieldOrder,
                       {k \in 1..Len(LinkFieldOrder) : LinkFieldOrder[k] \in DOMAIN l})
    IN  [i \in 1..Len(keys) |-> <<keys[i], l[keys[i]]>>]

stringifyCategory(c) ==
    << <<"id", c.id>>, <<"title", c.title>>, <<"isOpen", c.isOpen>>,
       <<"links", [i \in 1..Len(c.links) |-> stringifyLink(c.links[i])]>> >>

stringifyCategories(cats) == [i \in 1..Len(cats) |-> stringifyCategory(cats[i])]

\* JSON.stringify(value)
JSONStringify(v) ==
    CASE v.kind = "array" -> <<"[", stringifyCategories(v.cats)>>
      [] v.kind = "portals" ->
            LET keys == PortalKeys(v.portals)
            IN  <<"{portals", [i \in 1..Len(keys) |->
                                 <<keys[i], stringifyCategories(v.portals[keys[i]])>>]>>
      [] v.kind = "object" -> <<"{", <<>>>>
      [] v.kind = "null" -> <<"null", <<>>>>
      [] OTHER -> <<"42", <<>>>>

\* The value of the member named key of an object's text.
Member(members, key) ==
    members[CHOOSE i \in 1..Len(members) : members[i][1] = key][2]

parseLink(members) ==
    [f \in {members[i][1] : i \in 1..Len(members)} |-> Member(members, f)]

\* parseCategory that takes every category for an open one.
parseCategoryOpen(members) ==
    Category(Member(members, "id"), Member(members, "title"), TRUE,
             LET ls == Member(members, "links")
             IN  [i \in 1..Len(ls) |-> parseLink(ls[i])])

parseCategory(members) ==
    Category(Member(members, "id"), Member(members, "title"),
             Member(members, "isOpen"),
             LET ls == Member(members, "links")
             IN  [i \in 1..Len(ls) |-> parseLink(ls[i])])

parseCategories(texts) == [i \in 1..Len(texts) |-> parseCategory(texts[i])]

\* JSON.parse(text) of a well-formed text.
JSONParse(text) ==
    CASE text[1] = "[" -> JsonArray(parseCategories(text[2]))
      [] text[1] = "{portals" ->
            JsonPortals([p \in {text[2][i][1] : i \in 1..Len(text[2])} |->
                            parseCategories(Member(text[2], p))])
      [] text[1] = "{" -> JsonOther("object")
      [] text[1] = "null" -> JsonOther("null")
      [] OTHER -> JsonOther("primitive")

\* getData(): JSON.parse(JSON.stringify(this.data)), a deep copy: category
\* values that are no objects of the store.
getData(s) == JSONParse(JSONStringify(JsonArray(DataOf(s)))).cats

\* The store after the portal map `map` of a parsed document (portal id ->
\* category values) was allocated and assigned to this.allPortals.
RECURSIVE AllocPortals(_, _, _)
AllocPortals(s, map, keys) ==
    IF keys = <<>> THEN s
    ELSE LET a == NewArray(s, map[Head(keys)])
             p == Head(keys)
         IN  AllocPortals(
                 [a.store EXCEPT !.allPortals =
                     [q \in DOMAIN @ \cup {p} |-> IF q = p THEN a.ref ELSE @[q]]],
                 map, Tail(keys))

\* this.allPortals[portalId] = ref
SetPortal(s, portalId, ref) ==
    [s EXCEPT !.allPortals =
        [q \in DOMAIN @ \cup {portalId} |-> IF q = portalId THEN ref ELSE @[q]]]

\* this.data = this.allPortals[portalId] ?? []
SelectPortal(s, portalId) ==
    IF portalId \in DOMAIN s.allPortals
    THEN [s EXCEPT !.data = s.allPortals[portalId]]
    ELSE LET a == NewArray(s, <<>>) IN [a.store EXCEPT !.data = a.ref]

(***************************************************************************)
(* DataManager: persistence.                                               *)
(***************************************************************************)
\* What fetch('data/data.json') and response.json() come to: the fetch
\* rejects, the status is not ok, the body is no JSON, or the body is a text.
FetchRejected == [status |-> "rejected", text |-> <<"", <<>>>>]
HttpError == [status |-> "httpError", text |-> <<"", <<>>>>]
BadBody == [status |-> "syntaxError", text |-> <<"", <<>>>>]
Body(text) == [status |-> "ok", text |-> text]

\* load whose catch block empties the store before it reports the failure.
loadClearingOnFailure(s, portalId, response) ==
    LET cleared == SelectPortal([s EXCEPT !.allPortals = EmptyMap], portalId)
    IN  IF response.status # "ok" THEN [store |-> cleared, success |-> FALSE]
        ELSE LET parsed == JSONParse(response.text)
             IN  IF parsed.kind = "array"
                 THEN LET a  == NewArray(s, parsed.cats)
                          s2 == [a.store EXCEPT !.allPortals =
                                    [q \in {"default"} |-> a.ref]]
                      IN  [store |-> SelectPortal(s2, portalId), success |-> TRUE]
                 ELSE IF parsed.kind = "null"
                 THEN [store |-> cleared, success |-> FALSE]
                 ELSE LET map == IF parsed.kind = "portals" THEN parsed.portals
                                 ELSE EmptyMap
                          s2  == AllocPortals([s EXCEPT !.allPortals = EmptyMap],
                                              map, PortalKeys(map))
                      IN  [store |-> SelectPortal(s2, portalId), success |-> TRUE]

\* load that calls markAsClean() when it has succeeded.
loadMarkingClean(s, portalId, response) ==
    IF response.status # "ok" THEN [store |-> s, success |-> FALSE]
    ELSE LET parsed == JSONParse(response.text)
         IN  IF parsed.kind = "array"
             THEN LET a  == NewArray(s, parsed.cats)
                      s2 == [a.store EXCEPT !.allPortals =
                                [q \in {"default"} |-> a.ref]]
                  IN  [store |-> markAsClean(SelectPortal(s2, portalId)),
                       success |-> TRUE]
             ELSE IF parsed.kind = "null"
             THEN [store |-> s, success |-> FALSE]
             ELSE LET map == IF parsed.kind = "portals" THEN parsed.portals
                             ELSE EmptyMap
                      s2  == AllocPortals([s EXCEPT !.allPortals = EmptyMap],
                                          map, PortalKeys(map))
                  IN  [store |-> markAsClean(SelectPortal(s2, portalId)),
                       success |-> TRUE]

\* load(portalId) from the point where the response has arrived: the store
\* afterwards and the success field of the result.
load(s, portalId, response) ==
    IF response.status # "ok" THEN [store |-> s, success |-> FALSE]
    ELSE LET parsed == JSONParse(response.text)
         IN  IF parsed.kind = "array"
             THEN LET a  == NewArray(s, parsed.cats)
                      s2 == [a.store EXCEPT !.allPortals =
                                [q \in {"default"} |-> a.ref]]
                  IN  [store |-> SelectPortal(s2, portalId), success |-> TRUE]
             ELSE IF parsed.kind = "null"
             \* parsed.portals throws a TypeError, which the catch reports.
             THEN [store |-> s, success |-> FALSE]
             ELSE LET map == IF parsed.kind = "portals" THEN parsed.portals
                             ELSE EmptyMap
                      s2  == AllocPortals([s EXCEPT !.allPortals = EmptyMap],
                                          map, PortalKeys(map))
                  IN  [store |-> SelectPortal(s2, portalId), success |-> TRUE]

\* What _readJsonFile(file) comes to: the read fails, the content is no
\* JSON, or the parsed content of the file.
ReadError == [status |-> "readError", text |-> <<"", <<>>>>]

\* The assignments without the validation of the shape: as load does it, a
\* value that is neither an array nor carries portals empties allPortals.
applyFileUnvalidated(s, read, portalId) ==
    IF read.status # "ok" THEN [store |-> s, threw |-> TRUE]
    ELSE LET json == JSONParse(read.text)
         IN  IF json.kind = "portals"
             THEN LET s2 == AllocPortals([s EXCEPT !.allPortals = EmptyMap],
                                         json.portals, PortalKeys(json.portals))
                  IN  [store |-> SelectPortal(s2, portalId), threw |-> FALSE]
             ELSE IF json.kind = "array"
             THEN LET a  == NewArray(s, json.cats)
                      s2 == SetPortal(a.store, portalId, a.ref)
                  IN  [store |-> SelectPortal(s2, portalId), threw |-> FALSE]
             ELSE [store |-> SelectPortal([s EXCEPT !.allPortals = EmptyMap],
                                          portalId),
                   threw |-> FALSE]

\* The assignments with an array treated as load treats it: the array
\* becomes the only entry of allPortals.
applyFileAsLoad(s, read, portalId) ==
    IF read.status # "ok" THEN [store |-> s, threw |-> TRUE]
    ELSE LET json == JSONParse(read.text)
         IN  IF json.kind = "portals"
             THEN LET s2 == AllocPortals([s EXCEPT !.allPortals = EmptyMap],
                                         json.portals, PortalKeys(json.portals))
                  IN  [store |-> SelectPortal(s2, portalId), threw |-> FALSE]
             ELSE IF json.kind = "array"
             THEN LET a  == NewArray(s, json.cats)
                      s2 == [a.store EXCEPT !.allPortals =
                                [q \in {portalId} |-> a.ref]]
                  IN  [store |-> SelectPortal(s2, portalId), threw |-> FALSE]
             ELSE [store |-> s, threw |-> TRUE]

\* The assignments loadFromFile and importData share: the store afterwards,
\* and whether the call threw.
applyFile(s, read, portalId) ==
    IF read.status # "ok" THEN [store |-> s, threw |-> TRUE]
    ELSE LET json == JSONParse(read.text)
         IN  IF json.kind = "portals"
             THEN LET s2 == AllocPortals([s EXCEPT !.allPortals = EmptyMap],
                                         json.portals, PortalKeys(json.portals))
                  IN  [store |-> SelectPortal(s2, portalId), threw |-> FALSE]
             ELSE IF json.kind = "array"
             THEN LET a  == NewArray(s, json.cats)
                      s2 == SetPortal(a.store, portalId, a.ref)
                  IN  [store |-> SelectPortal(s2, portalId), threw |-> FALSE]
             ELSE [store |-> s, threw |-> TRUE]

loadFromFile(s, read, portalId) == applyFile(s, read, portalId)

\* importData that marks the store dirty only when the import has changed
\* the collection.
importDataDirtyOnChange(s, read, portalId) ==
    LET r == applyFile(s, read, portalId)
    IN  IF r.threw \/ DataOf(r.store) = DataOf(s) THEN r
        ELSE [store |-> markAsDirty(r.store), threw |-> FALSE]

importData(s, read, portalId) ==
    LET r == applyFile(s, read, portalId)
    IN  IF r.threw THEN r ELSE [store |-> markAsDirty(r.store), threw |-> FALSE]

\* save without this.allPortals[portalId] = this.data.
saveWithoutAssign(s, portalId) ==
    LET dataStr == JSONStringify(JsonPortals(
                       [p \in DOMAIN s.allPortals |->
                           ArrayValue(s, s.allPortals[p])]))
    IN  [store |-> markAsClean(s), text |-> dataStr]

\* save(portalId): the store afterwards and the text of the downloaded file.
save(s, portalId) ==
    LET s2 == SetPortal(s, portalId, s.data)
        dataStr == JSONStringify(JsonPortals(
                       [p \in DOMAIN s2.allPortals |->
                           ArrayValue(s2, s2.allPortals[p])]))
    IN  [store |-> markAsClean(s2), text |-> dataStr]

(***************************************************************************)
(* The environment: the documents that exist, the arguments of the calls.  *)
(***************************************************************************)
\* Ids that an earlier session generated.
C(k) == IdOf("cat", 0, k)
L(k) == IdOf("link", 0, k)

SeedCategories ==
    << Category(C(1), "A", TRUE, <<Link(L(1), "A"), Link(L(2), "B")>>),
       Category(C(2), "B", FALSE, <<>>),
       Category(C(3), "C", TRUE, <<>>) >>

\* A data.json in the legacy format and one in the portals format.
LegacyText == JSONStringify(JsonArray(SeedCategories))
PortalsText ==
    JSONStringify(JsonPortals(
        [p \in PortalIds |-> IF p = "default" THEN SubSeq(SeedCategories, 1, 2)
                             ELSE SubSeq(SeedCategories, 3, 3)]))
NoText == <<"", <<>>>>

\* The JSON texts a fetch or a file can deliver: the two documents, and
\* {} , null and 42.
Texts == {LegacyText, PortalsText, <<"{", <<>>>>, <<"null", <<>>>>, <<"42", <<>>>>}

Responses == {FetchRejected, HttpError, BadBody} \cup {Body(t) : t \in Texts}
\* The response that carries the legacy document.
Documents == {Body(LegacyText)}
FileReads == {ReadError, BadBody} \cup {Body(t) : t \in Texts}

\* _generateId: Math.floor(Math.random() * RandomRange) is in 0..RandomRange-1;
\* the model draws the least and the greatest of these values.
RandomRange == 1000
Randoms == {0, RandomRange - 1}

\* linkData arguments: of the dialogs' kind, and one that carries an id.
LinkDatas ==
    { [f \in {"title", "url"} |-> IF f = "title" THEN "B" ELSE "u"],
      [f \in {"id", "title"} |-> IF f = "id" THEN L(1) ELSE "A"] }

\* links arguments of addBulkLinks: no link, two links of the dialog's
\* kind, and two links of which the first carries an id.
BulkInputs ==
    { <<>>,
      [i \in 1..2 |-> [f \in {"title", "url"} |-> IF f = "title" THEN "B" ELSE "u"]],
      [i \in 1..2 |-> IF i = 1
                      THEN [f \in {"id", "title"} |-> IF f = "id" THEN L(1) ELSE "A"]
                      ELSE [f \in {"title", "url"} |-> IF f = "title" THEN "B" ELSE "u"]] }

CategoryIds == {objs[arrs[data][i]].id : i \in 1..Len(arrs[data])}
LinkIds ==
    UNION {{l["id"] : l \in {objs[arrs[data][i]].links[j] :
                               j \in 1..Len(objs[arrs[data][i]].links)}} :
           i \in 1..Len(arrs[data])}
IdArgs(ids) == ids \cup {NoSuchId}
\* (fromIndex, toIndex) arguments for a list of length len: every pair in
\* range, and pairs with one index just out of range on either side.
MoveArgs(len) ==
    {<<f, t>> : f \in 0..(len - 1), t \in 0..len}
    \cup {<<0 - 1, 0>>, <<len, 0>>, <<0, 0 - 1>>, <<0, len + 1>>}

(***************************************************************************)
(* Actions: one per call of a DataManager method.                          *)
(***************************************************************************)
SetStore(s) ==
    \E c \in {Collect(s)} :
        /\ objs' = c.objs
        /\ arrs' = c.arrs
        /\ data' = c.data
        /\ allPortals' = c.allPortals
        /\ hasUnsavedChanges' = c.hasUnsavedChanges
        /\ onDirtyCalls' = c.onDirtyCalls
        /\ got' = c.got

Call(name, args, result) == [name |-> name, args |-> args, result |-> result]

\* State after construction: data = [], allPortals = {}, clean.
Init ==
    /\ objs = <<>>
    /\ arrs = << <<>> >>
    /\ data = 1
    /\ allPortals = EmptyMap
    /\ hasUnsavedChanges = FALSE
    /\ onDirtyCalls = 0
    /\ now = 1
    /\ generated = EmptyBag
    /\ downloaded = NoText
    /\ view = <<>>
    /\ got = 0
    /\ loads = <<>>
    /\ draggedInfo = NoDrag
    /\ placeholder = NoPlaceholder
    /\ initialized = FALSE
    /\ errorArea = FALSE
    /\ saveBtnDisabled = FALSE
    /\ config = defaultConfig
    /\ localStorage = NoItem
    /\ lastOp = Call("new", <<>>, "")

CanCall == onDirtyCalls < MaxDirty

\* The bag of the ids in the sequence ids.
BagOfSeq(ids) ==
    [id \in {ids[i] : i \in 1..Len(ids)} |->
        Cardinality({i \in 1..Len(ids) : ids[i] = id})]

\* Date.now() never returns less than it returned before: a call that
\* generates ids reads a time among Nows, and the clock stands there after it.
Nows == {t \in {now, now + 1} : t <= MaxTime}

\* Whether the call found what it was to act on, by the collection alone.
HasCategory(id) == \E i \in 1..Len(arrs[data]) : objs[arrs[data][i]].id = id
HasLink(catId, linkId) ==
    \E i \in 1..Len(arrs[data]) :
        /\ objs[arrs[data][i]].id = catId
        /\ \E j \in 1..Len(objs[arrs[data][i]].links) :
              LET l == objs[arrs[data][i]].links[j]
              IN  "id" \in DOMAIN l /\ l["id"] = linkId
InRange(len, fromIndex, toIndex) ==
    fromIndex \in 0..(len - 1) /\ toIndex \in 0..len
LinksAt(catIndex) ==
    IF catIndex \in 0..(Len(arrs[data]) - 1)
    THEN objs[arrs[data][catIndex + 1]].links ELSE <<>>

\* The record of a call: its arguments are recorded when the call had a
\* target ("hit"); a call without one ("miss") leaves only its name.
Called(name, args, hit) ==
    IF hit THEN Call(name, args, "hit") ELSE Call(name, <<>>, "miss")

AddCategoryCall(title, t, r) ==
    /\ SetStore(addCategory(Store, title, t, r))
    /\ generated' = generated (+) BagOfSeq(<<_generateId("cat", t, r)>>)
    /\ now' = t
    /\ lastOp' = Called("addCategory", <<title>>, TRUE)
    /\ UNCHANGED <<downloaded, view>>
    /\ UNCHANGED app

AddCategory ==
    /\ CanCall
    /\ \E title \in Titles, t \in Nows, r \in Randoms : AddCategoryCall(title, t, r)

UpdateCategoryCall(id, title) ==
    /\ SetStore(updateCategory(Store, id, title))
    /\ lastOp' = Called("updateCategory", <<id, title>>, HasCategory(id))
    /\ UNCHANGED <<now, generated, downloaded, view>>
    /\ UNCHANGED app

UpdateCategory ==
    /\ CanCall
    /\ \E id \in IdArgs(CategoryIds), title \in Titles : UpdateCategoryCall(id, title)

DeleteCategoryCall(id) ==
    /\ SetStore(deleteCategory(Store, id))
    /\ lastOp' = Called("deleteCategory", <<id>>, HasCategory(id))
    /\ UNCHANGED <<now, generated, downloaded, view>>
    /\ UNCHANGED app

DeleteCategory ==
    /\ CanCall
    /\ \E id \in IdArgs(CategoryIds) : DeleteCategoryCall(id)

MoveCategoryCall(fromIndex, toIndex) ==
    /\ SetStore(moveCategory(Store, fromIndex, toIndex))
    /\ lastOp' = Called("moveCategory", <<fromIndex, toIndex>>,
                        InRange(Len(arrs[data]), fromIndex, toIndex))
    /\ UNCHANGED <<now, generated, downloaded, view>>
    /\ UNCHANGED app

MoveCategory ==
    /\ CanCall
    /\ \E m \in MoveArgs(Len(arrs[data])) : MoveCategoryCall(m[1], m[2])

AddLinkCall(catId, linkData, t, r) ==
    /\ SetStore(addLink(Store, catId, linkData, t, r))
    /\ generated' = IF getCategory(Store, catId) # Undefined
                    THEN generated (+) BagOfSeq(<<_generateId("link", t, r)>>)
                    ELSE generated
    /\ now' = IF getCategory(Store, catId) # Undefined THEN t ELSE now
    /\ lastOp' = Called("addLink", <<catId, linkData>>, HasCategory(catId))
    /\ UNCHANGED <<downloaded, view>>
    /\ UNCHANGED app

AddLink ==
    /\ CanCall
    /\ \E catId \in IdArgs(CategoryIds), linkData \in LinkDatas,
              t \in Nows, r \in Randoms :
               AddLinkCall(catId, linkData, t, r)

UpdateLinkCall(catId, linkId, linkData) ==
    /\ SetStore(updateLink(Store, catId, linkId, linkData))
    /\ lastOp' = Called("updateLink", <<catId, linkId, linkData>>,
                        HasLink(catId, linkId))
    /\ UNCHANGED <<now, generated, downloaded, view>>
    /\ UNCHANGED app

UpdateLink ==
    /\ CanCall
    /\ \E catId \in IdArgs(CategoryIds), linkId \in IdArgs(LinkIds),
              linkData \in LinkDatas :
               UpdateLinkCall(catId, linkId, linkData)

DeleteLinkCall(catId, linkId) ==
    /\ SetStore(deleteLink(Store, catId, linkId))
    /\ lastOp' = Called("deleteLink", <<catId, linkId>>, HasLink(catId, linkId))
    /\ UNCHANGED <<now, generated, downloaded, view>>
    /\ UNCHANGED app

DeleteLink ==
    /\ CanCall
    /\ \E catId \in IdArgs(CategoryIds), linkId \in IdArgs(LinkIds) :
               DeleteLinkCall(catId, linkId)

MoveLinkCall(catIndex, fromIndex, toIndex) ==
    /\ SetStore(moveLink(Store, catIndex, fromIndex, toIndex))
    /\ lastOp' = Called("moveLink", <<catIndex, fromIndex, toIndex>>,
                        /\ catIndex \in 0..(Len(arrs[data]) - 1)
                        /\ InRange(Len(LinksAt(catIndex)), fromIndex, toIndex))
    /\ UNCHANGED <<now, generated, downloaded, view>>
    /\ UNCHANGED app

MoveLink ==
    /\ CanCall
    /\ \E catIndex \in (0 - 1)..Len(arrs[data]) :
               \E m \in MoveArgs(Len(LinksAt(catIndex))) :
                   MoveLinkCall(catIndex, m[1], m[2])

AddBulkLinksCall(catId, links, ts, rs) ==
    /\ SetStore(addBulkLinks(Store, catId, links, ts, rs))
    /\ generated' =
           IF getCategory(Store, catId) # Undefined
           THEN generated (+)
                BagOfSeq([i \in 1..Len(links) |-> _generateId("link", ts[i], rs[i])])
           ELSE generated
    /\ now' = IF getCategory(Store, catId) # Undefined /\ Len(links) > 0
              THEN ts[Len(links)] ELSE now
    /\ lastOp' = Called("addBulkLinks", <<catId, links>>, HasCategory(catId))
    /\ UNCHANGED <<downloaded, view>>
    /\ UNCHANGED app

\* The times the links of one addBulkLinks call read: never decreasing.
BulkTimes(n) ==
    {ts \in [1..n -> Nows] : \A i \in 1..(n - 1) : ts[i] <= ts[i + 1]}

AddBulkLinks ==
    /\ CanCall
    /\ \E catId \in IdArgs(CategoryIds), links \in BulkInputs :
               \E ts \in BulkTimes(Len(links)), rs \in [1..Len(links) -> Randoms] :
                   AddBulkLinksCall(catId, links, ts, rs)

MarkAsClean ==
    /\ SetStore(markAsClean(Store))
    /\ lastOp' = Call("markAsClean", <<>>, "")
    /\ UNCHANGED <<now, generated, downloaded, view>>
    /\ UNCHANGED app

\* load(portalId) is called and its response arrives.
Load(responses) ==
    /\ \E portalId \in PortalIds, response \in responses :
        \E r \in {load(Store, portalId, response)} :
            /\ SetStore(r.store)
            /\ lastOp' = Call("load", <<portalId, response>>,
                              IF r.success THEN "success" ELSE "failure")
    /\ UNCHANGED <<now, generated, downloaded, view>>
    /\ UNCHANGED app

\* loadFromFile(file, portalId) is called and the file is read.
LoadFromFileCall(portalId, read) ==
    /\ \E r \in {loadFromFile(Store, read, portalId)} :
            /\ SetStore(r.store)
            /\ lastOp' = Call("loadFromFile", <<portalId, read>>,
                              IF r.threw THEN "threw" ELSE "returned")
    /\ UNCHANGED <<now, generated, downloaded, view>>
    /\ UNCHANGED app

LoadFromFile ==
    \E portalId \in PortalIds, read \in FileReads : LoadFromFileCall(portalId, read)

\* importData(file, portalId) is called and the file is read.
ImportDataCall(portalId, read) ==
    /\ \E r \in {importData(Store, read, portalId)} :
            /\ SetStore(r.store)
            /\ lastOp' = Call("importData", <<portalId, read>>,
                              IF r.threw THEN "threw" ELSE "returned")
    /\ UNCHANGED <<now, generated, downloaded, view>>
    /\ UNCHANGED app

ImportData ==
    /\ CanCall
    /\ \E portalId \in PortalIds, read \in FileReads : ImportDataCall(portalId, read)

\* save(portalId) is called.
Save ==
    /\ \E portalId \in PortalIds :
        \E r \in {save(Store, portalId)} :
            /\ SetStore(r.store)
            /\ downloaded' = r.text
            /\ lastOp' = Call("save", <<portalId>>, "returned")
    /\ UNCHANGED <<now, generated, view>>
    /\ UNCHANGED app

\* save(portalId) when JSON.stringify or the download throws: the assignment
\* to allPortals has been made, nothing is downloaded, markAsClean() is not
\* reached.
saveThrows(s, portalId) == SetPortal(s, portalId, s.data)

SaveThrowsCall(portalId) ==
    /\ SetStore(saveThrows(Store, portalId))
    /\ lastOp' = Call("save", <<portalId>>, "threw")
    /\ UNCHANGED <<now, generated, downloaded, view>>
    /\ UNCHANGED app

SaveThrows == \E portalId \in PortalIds : SaveThrowsCall(portalId)

\* load(portalId) is called and fetches the data.json that save downloaded.
LoadSaved ==
    /\ downloaded # NoText
    /\ Load({Body(downloaded)})

(***************************************************************************)
(* UI (js/ui.js): the rendering of the categories and the two handlers     *)
(* that write isOpen.  A <details> element and the category object its     *)
(* toggle listener closes over agree on open / isOpen, so the view is the  *)
(* sequence of the category objects render got from getData().             *)
(***************************************************************************)
\* render(): const data = this.dataManager.getData(); details.open = category.isOpen
render(s) == getData(s)

\* The toggle listener of the i-th <details> after the user has clicked it:
\* category.isOpen = details.open, on the category object render iterated over.
toggle(v, i) == [v EXCEPT ![i].isOpen = ~@]

\* toggleAll(isOpen): every <details> gets open = isOpen (its listener then
\* writes the category object of the view), and isOpen is written on each
\* category of the array that this call of getData() returned (written).  The
\* store and the view afterwards.
toggleAll(s, v, isOpen) ==
    LET copy    == getData(s)
        written == [i \in 1..Len(copy) |-> [copy[i] EXCEPT !.isOpen = isOpen]]
    IN  [store |-> s,
         view  |-> [i \in 1..Len(v) |-> [v[i] EXCEPT !.isOpen = isOpen]]]

Render ==
    /\ view' = render(Store)
    /\ lastOp' = Call("render", <<>>, "")
    /\ UNCHANGED <<objs, arrs, data, allPortals, hasUnsavedChanges, onDirtyCalls,
                   now, generated, downloaded, got>>
    /\ UNCHANGED app

Toggle ==
    \E i \in 1..Len(view) :
        /\ view' = toggle(view, i)
        /\ lastOp' = Call("toggle", <<i - 1>>, "")
        /\ UNCHANGED <<objs, arrs, data, allPortals, hasUnsavedChanges,
                       onDirtyCalls, now, generated, downloaded, got>>
        /\ UNCHANGED app

ToggleAll ==
    \E isOpen \in BOOLEAN :
        \E r \in {toggleAll(Store, view, isOpen)} :
            /\ SetStore(r.store)
            /\ view' = r.view
            /\ lastOp' = Call("toggleAll", <<isOpen>>, "")
            /\ UNCHANGED <<now, generated, downloaded>>
            /\ UNCHANGED app

(***************************************************************************)
(* A caller of getData() that keeps the array it was given and writes to   *)
(* it, as the test 'getData() should return the current data' does.        *)
(***************************************************************************)
\* getData() that returns this.data itself.
returnDataNoCopy(s) == [s EXCEPT !.got = s.data]

\* const data = dataManager.getData(): the array that JSON.parse builds is a
\* new array of new category objects, and the caller holds it.
returnData(s) ==
    LET a == NewArray(s, getData(s)) IN [a.store EXCEPT !.got = a.ref]

\* data[i].title = 'Changed' on the array the caller holds (i is 1-based).
writeCategory(s, i) == [s EXCEPT !.objs[s.arrs[s.got][i]].title = "Changed"]

\* data[i].links[j].title = 'Changed'
writeLink(s, i, j) ==
    [s EXCEPT !.objs[s.arrs[s.got][i]].links[j] =
                  Assign(@, [f \in {"title"} |-> "Changed"])]

\* data.pop()
popArray(s) == [s EXCEPT !.arrs[s.got] = SubSeq(@, 1, Len(@) - 1)]

\* The categories of the array the caller holds.
Got == IF got = 0 THEN <<>> ELSE ArrayValue(Store, got)

GetData ==
    /\ SetStore(returnData(Store))
    /\ lastOp' = Call("getData", <<>>, "")
    /\ UNCHANGED <<now, generated, downloaded, view>>
    /\ UNCHANGED app

WriteCategory ==
    /\ got # 0
    /\ \E i \in 1..Len(Got) :
        /\ SetStore(writeCategory(Store, i))
        /\ lastOp' = Call("write", <<"category", i - 1>>, "")
    /\ UNCHANGED <<now, generated, downloaded, view>>
    /\ UNCHANGED app

WriteLink ==
    /\ got # 0
    /\ \E i \in 1..Len(Got) :
        \E j \in 1..Len(Got[i].links) :
            /\ SetStore(writeLink(Store, i, j))
            /\ lastOp' = Call("write", <<"link", i - 1, j - 1>>, "")
    /\ UNCHANGED <<now, generated, downloaded, view>>
    /\ UNCHANGED app

WriteArray ==
    /\ got # 0
    /\ Len(Got) > 0
    /\ SetStore(popArray(Store))
    /\ lastOp' = Call("write", <<"array">>, "")
    /\ UNCHANGED <<now, generated, downloaded, view>>
    /\ UNCHANGED app

(***************************************************************************)
(* Specifications.                                                         *)
(***************************************************************************)
\* The store's synchronous API on a store that load has filled.
Next ==
    \/ AddCategory
    \/ UpdateCategory
    \/ DeleteCategory
    \/ MoveCategory
    \/ AddLink
    \/ UpdateLink
    \/ DeleteLink
    \/ MoveLink
    \/ AddBulkLinks
    \/ MarkAsClean
    \/ Load(Documents)

Spec == Init /\ [][Next]_vars

\* Loading: every response and every file, for every portal id.
NextLoad ==
    \/ Load(Responses)
    \/ LoadFromFile
    \/ ImportData

SpecLoad == Init /\ [][NextLoad]_vars

\* The presenter: rendering, toggling, saving and loading what was saved.
NextUI ==
    \/ Load(Documents)
    \/ Render
    \/ Toggle
    \/ ToggleAll
    \/ Save
    \/ LoadSaved

SpecUI == Init /\ [][NextUI]_vars

(***************************************************************************)
(* Properties.                                                             *)
(***************************************************************************)
\* The store's category collection.
Categories == DataOf(Store)

Hit(names) == lastOp'.name \in names /\ lastOp'.result = "hit"
Miss(names) == lastOp'.name \in names /\ lastOp'.result = "miss"

\* Nothing of what a caller of the store observes changes in the step.
NoEffect ==
    /\ Categories' = Categories
    /\ hasUnsavedChanges' = hasUnsavedChanges
    /\ onDirtyCalls' = onDirtyCalls

\* How often _generateId has returned id.
TimesGenerated(bag, id) == IF id \in DOMAIN bag THEN bag[id] ELSE 0

\* The ids of the links of a category, in order.
LinkIdsOf(cat) == [j \in 1..Len(cat.links) |-> cat.links[j]["id"]]

\* C1: for any sequence of addCategory, addLink and addBulkLinks calls, also
\* within one millisecond, all ids that _generateId produced are pairwise
\* distinct: none was produced twice.
C1_GeneratedIdsDistinct ==
    \A id \in DOMAIN generated : generated[id] = 1

\* C2: in every reachable state no two categories of the store have the same
\* id and no two links of one category have the same id.
C2_IdsUnique ==
    /\ \A i, k \in 1..Len(Categories) :
           Categories[i].id = Categories[k].id => i = k
    /\ \A i \in 1..Len(Categories) :
           \A j, k \in 1..Len(Categories[i].links) :
               LinkIdsOf(Categories[i])[j] = LinkIdsOf(Categories[i])[k] => j = k

\* C3: ids are store-generated and immutable: every link that addLink or
\* addBulkLinks appends carries an id that _generateId returned in that call,
\* whatever the link data contains, and updateLink leaves the id of every
\* link (the updated one included) and of every category as it was.
C3_IdsStoreGeneratedAndImmutable ==
    [][ /\ Hit({"addLink", "addBulkLinks"}) =>
              \A i \in 1..Len(Categories) :
                  \A j \in (Len(Categories[i].links) + 1)..Len(Categories'[i].links) :
                      TimesGenerated(generated', Categories'[i].links[j]["id"])
                          > TimesGenerated(generated, Categories'[i].links[j]["id"])
        /\ Hit({"updateLink"}) =>
              /\ Len(Categories') = Len(Categories)
              /\ \A i \in 1..Len(Categories) :
                     /\ Categories'[i].id = Categories[i].id
                     /\ LinkIdsOf(Categories'[i]) = LinkIdsOf(Categories[i]) ]_vars

\* C4: updateCategory, deleteCategory, addLink, updateLink, deleteLink and
\* addBulkLinks called with a category id (or link id) that does not exist
\* leave the category collection, hasUnsavedChanges and the number of onDirty
\* invocations as they were.
C4_MissingTargetNoEffect ==
    [][ Miss({"updateCategory", "deleteCategory", "addLink", "updateLink",
              "deleteLink", "addBulkLinks"}) => NoEffect ]_vars

\* deleteLink was called on a store with categories and found no such link.
C4_Witness ==
    /\ lastOp.name = "deleteLink"
    /\ lastOp.result = "miss"
    /\ Len(Categories) = 3
    /\ ~hasUnsavedChanges

C6_ToggleIsStored ==
    [][ (lastOp'.name \in {"toggle", "toggleAll"} /\ view = Categories) =>
            \A i \in 1..Len(view') : Categories'[i].isOpen = view'[i].isOpen ]_vars

\* C7: load of a document whose top level is neither an array nor an object
\* with a portals map reports failure and leaves the category collection
\* unchanged.
C7_UnacceptedShapeFails ==
    [][ ( /\ lastOp'.name = "load"
          /\ lastOp'.args[2].status = "ok"
          /\ lastOp'.args[2].text[1] \notin {"[", "{portals"} ) =>
            /\ lastOp'.result = "failure"
            /\ Categories' = Categories ]_vars

\* C8, as the specification states it: a successful load of a document that
\* is an array of categories makes exactly that array the store's collection,
\* for every portal id.
C8_ArrayReplacesForEveryPortal ==
    [][ ( /\ lastOp'.name = "load"
          /\ lastOp'.args[2] = Body(LegacyText)
          /\ lastOp'.result = "success" ) =>
            Categories' = SeedCategories ]_vars

\* C8: a successful load of a document that is an array of categories makes
\* exactly that array the collection of portal 'default': it is the store's
\* collection when load is called for 'default', and the store's collection
\* is empty when load is called for any other portal id.
C8_ArrayIsDefaultPortal ==
    [][ ( /\ lastOp'.name = "load"
          /\ lastOp'.args[2] = Body(LegacyText)
          /\ lastOp'.result = "success" ) =>
            /\ ArrayValue(Store, allPortals["default"])' = SeedCategories
            /\ DOMAIN allPortals' = {"default"}
            /\ Categories' = IF lastOp'.args[1] = "default" THEN SeedCategories
                             ELSE <<>> ]_vars

\* The array document was loaded for portal_1: the store's collection is
\* empty, and allPortals holds the array as portal 'default'.
C8_Witness ==
    /\ lastOp = Call("load", <<"portal_1", Body(LegacyText)>>, "success")
    /\ Categories = <<>>
    /\ ArrayValue(Store, allPortals["default"]) = SeedCategories

\* s without its i-th element (i is 1-based).
Remove(s, i) == [k \in 1..(Len(s) - 1) |-> IF k < i THEN s[k] ELSE s[k + 1]]
\* s with x inserted so that p elements precede it, or at the end when s has
\* fewer than p elements.
InsertAt(s, p, x) ==
    [k \in 1..(Len(s) + 1) |->
        IF k <= p /\ k <= Len(s) THEN s[k]
        ELSE IF k = p + 1 \/ (p > Len(s) /\ k = Len(s) + 1) THEN x
        ELSE s[k - 1]]
Moved(s, fromIndex, toIndex) ==
    InsertAt(Remove(s, fromIndex + 1), toIndex, s[fromIndex + 1])

\* C9: moveCategory(fromIndex, toIndex) with indices in range yields the
\* sequence obtained by removing the element at fromIndex and inserting it at
\* position toIndex of the shortened sequence; moveLink does the same on the
\* links of the category at categoryIndex and leaves the category order and
\* every other category's links unchanged.
C9_MoveRemovesThenInserts ==
    [][ /\ Hit({"moveCategory"}) =>
              Categories' = Moved(Categories, lastOp'.args[1], lastOp'.args[2])
        /\ Hit({"moveLink"}) =>
              /\ Len(Categories') = Len(Categories)
              /\ \A i \in 1..Len(Categories) :
                     Categories'[i] =
                         IF i = lastOp'.args[1] + 1
                         THEN [Categories[i] EXCEPT
                                  !.links = Moved(@, lastOp'.args[2], lastOp'.args[3])]
                         ELSE Categories[i] ]_vars

\* [A, B, C] after moveCategory(0, 2) is [B, C, A].
C9_Witness ==
    /\ lastOp = Call("moveCategory", <<0, 2>>, "hit")
    /\ [i \in 1..Len(Categories) |-> Categories[i].title] = <<"B", "C", "A">>

\* C10: moveCategory with fromIndex outside [0, length) or toIndex outside
\* [0, length], and moveLink with such an index or with a categoryIndex at
\* which there is no category, leave the category collection and
\* hasUnsavedChanges unchanged and do not invoke onDirty.
C10_OutOfRangeMoveNoEffect ==
    [][ Miss({"moveCategory", "moveLink"}) => NoEffect ]_vars

\* moveLink was called with an index out of range on a store with categories.
C10_Witness ==
    /\ lastOp.name = "moveLink"
    /\ lastOp.result = "miss"
    /\ Len(Categories) = 3
    /\ onDirtyCalls = 0

\* C11: moveCategory and moveLink set hasUnsavedChanges and invoke onDirty
\* exactly once whenever their indices are in range, also when fromIndex
\* equals toIndex and the order does not change.
C11_MoveInRangeDirtyOnce ==
    [][ Hit({"moveCategory", "moveLink"}) =>
            /\ hasUnsavedChanges' = TRUE
            /\ onDirtyCalls' = onDirtyCalls + 1 ]_vars

\* moveCategory(1, 1) was called on the three categories: the order is as it
\* was, the flag is set and onDirty was invoked once.
C11_Witness ==
    /\ lastOp = Call("moveCategory", <<1, 1>>, "hit")
    /\ Categories = SeedCategories
    /\ hasUnsavedChanges
    /\ onDirtyCalls = 1

\* C12, as the specification states it: a moveCategory or moveLink after
\* which the order is the same as before does not set hasUnsavedChanges and
\* does not invoke onDirty.
C12_DegenerateMoveNotDirty ==
    [][ (lastOp'.name \in {"moveCategory", "moveLink"} /\ Categories' = Categories) =>
            /\ hasUnsavedChanges' = hasUnsavedChanges
            /\ onDirtyCalls' = onDirtyCalls ]_vars

\* C12: a moveCategory or moveLink after which the order is the same as
\* before leaves hasUnsavedChanges and the onDirty count alone exactly when
\* an index was out of range; with indices in range it sets the flag and
\* invokes onDirty once although the order did not change.
C12_DegenerateMoveDirtyIffInRange ==
    [][ (lastOp'.name \in {"moveCategory", "moveLink"} /\ Categories' = Categories) =>
            IF lastOp'.result = "miss"
            THEN /\ hasUnsavedChanges' = hasUnsavedChanges
                 /\ onDirtyCalls' = onDirtyCalls
            ELSE /\ hasUnsavedChanges' = TRUE
                 /\ onDirtyCalls' = onDirtyCalls + 1 ]_vars

\* moveLink(0, 1, 2) moved the last of the two links of the first category
\* to the end: the collection is as it was, and the store is dirty.
C12_Witness ==
    /\ lastOp = Call("moveLink", <<0, 1, 2>>, "hit")
    /\ Categories = SeedCategories
    /\ hasUnsavedChanges
    /\ onDirtyCalls = 1

\* The 1-based position of the first category with the id, or 0.
PositionOfCategory(id) ==
    IF \E i \in 1..Len(Categories) : Categories[i].id = id
    THEN CHOOSE i \in 1..Len(Categories) :
             /\ Categories[i].id = id
             /\ \A k \in 1..(i - 1) : Categories[k].id # id
    ELSE 0

\* C13: addBulkLinks(categoryId, links) on an existing category with N >= 0
\* links leaves the category's previous links unchanged at the front, appends
\* exactly N new links after them in input order (the j-th new link has the
\* fields of the j-th input link), changes no other category, and invokes
\* onDirty exactly once for the whole call, also when N = 0.
C13_BulkAppendsInOrderDirtyOnce ==
    [][ Hit({"addBulkLinks"}) =>
            LET c     == PositionOfCategory(lastOp'.args[1])
                links == lastOp'.args[2]
                old   == Categories[c].links
                new   == Categories'[c].links
            IN  /\ Len(Categories') = Len(Categories)
                /\ \A i \in 1..Len(Categories) :
                       i # c => Categories'[i] = Categories[i]
                /\ Categories'[c] = [Categories[c] EXCEPT !.links = new]
                /\ Len(new) = Len(old) + Len(links)
                /\ SubSeq(new, 1, Len(old)) = old
                /\ \A j \in 1..Len(links) :
                       /\ DOMAIN new[Len(old) + j] = DOMAIN links[j] \cup {"id"}
                       /\ \A f \in DOMAIN links[j] \ {"id"} :
                              new[Len(old) + j][f] = links[j][f]
                /\ hasUnsavedChanges' = TRUE
                /\ onDirtyCalls' = onDirtyCalls + 1 ]_vars

\* addBulkLinks has added two different links to the first category, which
\* had two links: it has four now, and onDirty was invoked once.
C13_Witness ==
    /\ lastOp.name = "addBulkLinks"
    /\ lastOp.result = "hit"
    /\ lastOp.args[1] = C(1)
    /\ Len(lastOp.args[2]) = 2
    /\ lastOp.args[2][1] # lastOp.args[2][2]
    /\ Len(Categories[1].links) = 4
    /\ onDirtyCalls = 1

\* A caller of getData() writing to what it was given.
NextGet ==
    \/ Load(Documents)
    \/ UpdateCategory
    \/ GetData
    \/ WriteCategory
    \/ WriteLink
    \/ WriteArray

SpecGet == Init /\ [][NextGet]_vars

\* C14: writing to the value that getData returned (a category field, a link
\* field, the returned array itself) changes neither the store's category
\* collection nor what a later getData call returns, nor hasUnsavedChanges
\* (and onDirty is not invoked).
C14_GetDataIsACopy ==
    [][ lastOp'.name = "write" =>
            /\ Categories' = Categories
            /\ getData(Store)' = getData(Store)
            /\ hasUnsavedChanges' = hasUnsavedChanges
            /\ onDirtyCalls' = onDirtyCalls ]_vars

\* The caller has written to the array getData gave it: it differs from the
\* store's collection, which is the loaded one.
C14_Witness ==
    /\ lastOp.name = "write"
    /\ got # 0
    /\ Got # Categories
    /\ Categories = SeedCategories

\* Saving and loading what was saved, after a link was updated or a
\* category deleted.
NextSave ==
    \/ Load(Documents)
    \/ UpdateLink
    \/ DeleteCategory
    \/ Save
    \/ SaveThrows
    \/ LoadSaved

SpecSave == Init /\ [][NextSave]_vars

\* C15: save(P) leaves the collection as it is, and load(P) of the document
\* that this save wrote succeeds and yields a collection identical to the
\* one before: same categories, same links, same order, same field values.
C15_SaveLoadRoundTrip ==
    [][ /\ (lastOp'.name = "save" /\ lastOp'.result = "returned") =>
               Categories' = Categories
        /\ ( /\ lastOp.name = "save" /\ lastOp.result = "returned"
             /\ lastOp'.name = "load"
             /\ lastOp'.args = <<lastOp.args[1], Body(downloaded)>> ) =>
               /\ lastOp'.result = "success"
               /\ Categories' = Categories ]_vars

\* A collection with a closed category and a link that was given a url was
\* saved for the portal and loaded again from the document written.
C15_Witness ==
    /\ lastOp.name = "load"
    /\ lastOp.args[2] = Body(downloaded)
    /\ lastOp.result = "success"
    /\ downloaded # NoText
    /\ Categories # SeedCategories
    /\ Len(Categories) = 3
    /\ ~Categories[2].isOpen
    /\ \E j \in 1..Len(Categories[1].links) : "url" \in DOMAIN Categories[1].links[j]


\* The ids of the first category and of its first link, if there are any.
FirstCategoryIds == {objs[arrs[data][i]].id : i \in 1..Min(1, Len(arrs[data]))}
DialogLink == [f \in {"title", "url"} |-> IF f = "title" THEN "B" ELSE "u"]
FirstLinkIds == {LinksAt(0)[j]["id"] : j \in 1..Min(1, Len(LinksAt(0)))}

\* The call that follows addCategory, on the store with unsaved changes: of
\* every mutation operation (with and without a target), of importData,
\* loadFromFile and load, and of a save that throws.
OnDirtyStore ==
    /\ hasUnsavedChanges
    /\ lastOp.name = "addCategory"
    /\ onDirtyCalls <= MaxDirty
    /\ \/ \E title \in Titles : AddCategoryCall(title, now, 0)
       \/ \E id \in IdArgs(FirstCategoryIds), title \in Titles :
              UpdateCategoryCall(id, title)
       \/ \E id \in IdArgs(FirstCategoryIds) : DeleteCategoryCall(id)
       \/ \E m \in {<<0, 0>>, <<0, 0 - 1>>} : MoveCategoryCall(m[1], m[2])
       \/ \E id \in IdArgs(FirstCategoryIds) : AddLinkCall(id, DialogLink, now, 0)
       \/ \E id \in IdArgs(FirstCategoryIds), linkId \in IdArgs(FirstLinkIds) :
              UpdateLinkCall(id, linkId, DialogLink)
       \/ \E id \in IdArgs(FirstCategoryIds), linkId \in IdArgs(FirstLinkIds) :
              DeleteLinkCall(id, linkId)
       \/ \E m \in {<<0, 0>>, <<0, 0 - 1>>} : MoveLinkCall(0, m[1], m[2])
       \/ \E id \in IdArgs(FirstCategoryIds) :
              AddBulkLinksCall(id, <<>>, <<>>, <<>>)
       \/ \E portalId \in PortalIds,
             read \in {ReadError, Body(LegacyText), Body(PortalsText)} :
              ImportDataCall(portalId, read) \/ LoadFromFileCall(portalId, read)
       \/ Load({FetchRejected, Body(LegacyText), Body(PortalsText)})
       \/ \E portalId \in PortalIds : SaveThrowsCall(portalId)

\* The dirty flag: loading, a mutation, the calls on the store with unsaved
\* changes, saving and marking clean.
NextFlag ==
    \/ Load(Documents)
    \/ AddCategory
    \/ OnDirtyStore
    \/ Save
    \/ MarkAsClean

SpecFlag == Init /\ [][NextFlag]_vars

\* C16: hasUnsavedChanges goes from true to false only when a save completes
\* or markAsClean is called: load, loadFromFile, importData and the mutation
\* operations never reset it, and a save that throws leaves it unchanged.
C16_FlagResetOnlyBySaveOrClean ==
    [][ /\ (hasUnsavedChanges /\ ~hasUnsavedChanges') =>
               \/ lastOp'.name = "save" /\ lastOp'.result = "returned"
               \/ lastOp'.name = "markAsClean"
        /\ (lastOp'.name = "save" /\ lastOp'.result = "threw") =>
               hasUnsavedChanges' = hasUnsavedChanges ]_vars

\* loadFromFile has replaced the collection of a store with unsaved changes,
\* and the flag is still set.
C16_Witness ==
    /\ lastOp.name = "loadFromFile"
    /\ lastOp.result = "returned"
    /\ onDirtyCalls = 1
    /\ hasUnsavedChanges

\* C17: markAsClean sets hasUnsavedChanges to false, does not invoke onDirty
\* and does not modify the collection; after addCategory and then
\* markAsClean the flag is false and the callback has been invoked once.
C17_MarkAsCleanOnlyClearsFlag ==
    [][ lastOp'.name = "markAsClean" =>
            /\ ~hasUnsavedChanges'
            /\ onDirtyCalls' = onDirtyCalls
            /\ Categories' = Categories
            /\ (lastOp.name = "addCategory" /\ onDirtyCalls = 1) =>
                   onDirtyCalls' = 1 ]_vars

\* markAsClean has been called on the store whose only category addCategory
\* created: the flag is false, onDirty was invoked once.
C17_Witness ==
    /\ lastOp.name = "markAsClean"
    /\ ~hasUnsavedChanges
    /\ onDirtyCalls = 1
    /\ Len(Categories) = 1
    /\ TimesGenerated(generated, Categories[1].id) = 1

\* The all-portals map, as a value: the collection of every portal.
Portals == [p \in DOMAIN allPortals |-> ArrayValue(Store, allPortals[p])]

\* The step leaves the collection, the all-portals map (as values and as
\* object references) and the flag as they were.
StateIntact ==
    /\ Categories' = Categories
    /\ Portals' = Portals
    /\ <<objs, arrs, data, allPortals>>' = <<objs, arrs, data, allPortals>>
    /\ hasUnsavedChanges' = hasUnsavedChanges

\* C18: when load fails (the fetch rejects, the HTTP status is not ok, the
\* body cannot be parsed) it returns a failure result, and the collection,
\* the all-portals map and hasUnsavedChanges are as before the call.
C18_FailedLoadLeavesState ==
    [][ lastOp'.name = "load" =>
            /\ lastOp'.args[2].status # "ok" => lastOp'.result = "failure"
            /\ lastOp'.result = "failure" => StateIntact ]_vars

\* A load has failed on a store that holds imported categories and unsaved
\* changes, and the store still holds them.
C18_Witness ==
    /\ lastOp.name = "load"
    /\ lastOp.result = "failure"
    /\ lastOp.args[2].status # "ok"
    /\ hasUnsavedChanges
    /\ Categories = SeedCategories
    /\ "default" \in DOMAIN Portals

\* C19: loadFromFile and importData throw when the file cannot be read or
\* parsed or when its top-level value is neither an array nor an object that
\* carries portals; whenever they throw, the collection, the all-portals map
\* and hasUnsavedChanges are unchanged and onDirty is not invoked.
C19_FailedFileLoadLeavesState ==
    [][ lastOp'.name \in {"loadFromFile", "importData"} =>
            /\ ( \/ lastOp'.args[2].status # "ok"
                 \/ lastOp'.args[2].text[1] \notin {"[", "{portals"} ) =>
                   lastOp'.result = "threw"
            /\ lastOp'.result = "threw" =>
                   StateIntact /\ onDirtyCalls' = onDirtyCalls ]_vars

\* importData has thrown for a file that holds an object without portals, on
\* a store that holds the loaded categories.
C19_Witness ==
    /\ lastOp.name = "importData"
    /\ lastOp.result = "threw"
    /\ lastOp.args[2] = Body(<<"{", <<>>>>)
    /\ Categories = SeedCategories
    /\ onDirtyCalls = 0

\* The categories the file holds for the portal: the array of a file in the
\* legacy format, the portal's member of a file in the portals format.
ImportedContent(read, portalId) ==
    IF read = Body(LegacyText) THEN SeedCategories
    ELSE IF portalId = "default" THEN SubSeq(SeedCategories, 1, 2)
    ELSE SubSeq(SeedCategories, 3, 3)

\* C20: every importData that succeeds replaces the collection with the
\* imported content, sets hasUnsavedChanges and invokes onDirty exactly once,
\* also when the imported content equals the collection before the call.
C20_ImportReplacesAndMarksDirty ==
    [][ (lastOp'.name = "importData" /\ lastOp'.result = "returned") =>
            /\ lastOp'.args[2] \in {Body(LegacyText), Body(PortalsText)}
            /\ Categories' = ImportedContent(lastOp'.args[2], lastOp'.args[1])
            /\ Portals'[lastOp'.args[1]] = Categories'
            /\ hasUnsavedChanges'
            /\ onDirtyCalls' = onDirtyCalls + 1 ]_vars

\* importData has imported the portals document for portal_1: the collection
\* is that portal's categories, the flag is set, onDirty was invoked once.
C20_Witness ==
    /\ lastOp.name = "importData"
    /\ lastOp.result = "returned"
    /\ lastOp.args = <<"portal_1", Body(PortalsText)>>
    /\ Categories = SubSeq(SeedCategories, 3, 3)
    /\ hasUnsavedChanges
    /\ onDirtyCalls = 1

C22_UpdateLinkOverwritesGivenFields ==
    [][ Hit({"updateLink"}) =>
            LET catId    == lastOp'.args[1]
                linkId   == lastOp'.args[2]
                linkData == lastOp'.args[3]
                c == FindIndex({k \in 1..Len(Categories) : Categories[k].id = catId})
                links == Categories[c].links
                j == FindIndex({k \in 1..Len(links) :
                                   "id" \in DOMAIN links[k] /\ links[k]["id"] = linkId})
            IN  /\ Len(Categories') = Len(Categories)
                /\ \A k \in 1..Len(Categories) :
                       /\ k # c => Categories'[k] = Categories[k]
                       /\ [Categories'[k] EXCEPT !.links = <<>>] =
                              [Categories[k] EXCEPT !.links = <<>>]
                /\ Len(Categories'[c].links) = Len(links)
                /\ \A k \in 1..Len(links) :
                       k # j => Categories'[c].links[k] = links[k]
                /\ LET after == Categories'[c].links[j]
                   IN  /\ DOMAIN after = DOMAIN links[j] \cup DOMAIN linkData
                       /\ \A f \in DOMAIN linkData : after[f] = linkData[f]
                       /\ \A f \in DOMAIN links[j] \ DOMAIN linkData :
                              after[f] = links[j][f] ]_vars

\* updateLink has given the first link of the first category a new title and
\* a url: the link kept its id and its place, the second link is as loaded.
C22_Witness ==
    /\ lastOp.name = "updateLink"
    /\ lastOp.result = "hit"
    /\ lastOp.args = <<C(1), L(1), DialogLink>>
    /\ Len(Categories) = 3
    /\ Categories[1].links[1] =
           [f \in {"id", "title", "url"} |->
               IF f = "id" THEN L(1) ELSE IF f = "title" THEN "B" ELSE "u"]
    /\ Categories[1].links[2] = SeedCategories[1].links[2]

(***************************************************************************)
(* Overlapping calls of load().  load awaits fetch() and response.json()   *)
(* and assigns allPortals and data in one piece when the second of them    *)
(* has resolved; the calls that wait are in `loads`, and they resolve in   *)
(* any order.                                                              *)
(***************************************************************************)
\* How many calls of load() are started.
MaxLoads == 2

\* The response of a call that has not resolved.
Pending == [status |-> "pending", text |-> NoText]
\* What the fetch of a call comes to when it resolves.
RaceResponses == {FetchRejected, Body(LegacyText), Body(PortalsText)}

\* The continuation of a load that ignores the response of every call but
\* the one started last.
resolveLoadLatestOnly(s, calls, k, response) ==
    IF k = Len(calls) THEN load(s, calls[k].portalId, response)
    ELSE [store |-> s, success |-> response.status = "ok"]

\* The continuation of the k-th started call of load when its response has
\* resolved: the rest of load(portalId), run without interruption.
resolveLoad(s, calls, k, response) == load(s, calls[k].portalId, response)

\* load(portalId) is called: the fetch is started.
StartLoad ==
    /\ Len(loads) < MaxLoads
    /\ \E portalId \in PortalIds :
           /\ loads' = Append(loads, [portalId |-> portalId, response |-> Pending])
           /\ lastOp' = Call("fetch", <<portalId>>, "")
    /\ UNCHANGED <<objs, arrs, data, allPortals, hasUnsavedChanges, onDirtyCalls,
                   now, generated, downloaded, view, got>>
    /\ UNCHANGED page

\* The response of one of the waiting calls resolves.
ResolveLoad ==
    /\ \E k \in 1..Len(loads), response \in RaceResponses :
           /\ loads[k].response = Pending
           /\ \E r \in {resolveLoad(Store, loads, k, response)} :
                  /\ SetStore(r.store)
                  /\ lastOp' = Call("load", <<loads[k].portalId, response, k>>,
                                    IF r.success THEN "success" ELSE "failure")
           /\ loads' = [loads EXCEPT ![k].response = response]
    /\ UNCHANGED <<now, generated, downloaded, view>>
    /\ UNCHANGED page

NextRace ==
    \/ StartLoad
    \/ ResolveLoad

SpecRace == Init /\ [][NextRace]_vars

\* The categories load(portalId) makes the collection from a response.
LoadedContent(response, portalId) ==
    IF response = Body(LegacyText)
    THEN IF portalId = "default" THEN SeedCategories ELSE <<>>
    ELSE IF portalId = "default" THEN SubSeq(SeedCategories, 1, 2)
    ELSE SubSeq(SeedCategories, 3, 3)

\* C23: when calls of load overlap, each one overwrites the collection when
\* its response resolves, whatever the order in which the calls were
\* started: after a call has resolved with a document the collection is that
\* call's, and a call that fails leaves the collection of the call before.
C23_LastResolvedLoadWins ==
    [][ (lastOp'.name = "load" /\ loads' # loads) =>
            IF lastOp'.result = "success"
            THEN Categories' = LoadedContent(lastOp'.args[2], lastOp'.args[1])
            ELSE Categories' = Categories ]_vars

\* Two calls overlapped; the one started second resolved first, with the
\* categories of portal_1, and the one started first resolved last: the
\* collection is that of the call started first.
C23_Witness ==
    /\ Len(loads) = 2
    /\ loads[1] = [portalId |-> "default", response |-> Body(PortalsText)]
    /\ loads[2] = [portalId |-> "portal_1", response |-> Body(PortalsText)]
    /\ lastOp = Call("load", <<"default", Body(PortalsText), 1>>, "success")
    /\ Categories = SubSeq(SeedCategories, 1, 2)

(***************************************************************************)
(* The page (js/app.js): the DOMContentLoaded handler, the configuration   *)
(* (js/configManager.js) and the listeners that ui.init() and the dialogs' *)
(* init() register.  A handler that ends with window.location.reload()     *)
(* leaves a page on which no listener runs any more.                       *)
(***************************************************************************)
\* ConfigManager._load(): the stored configuration, or a copy of defaultConfig.
configLoad(item) == IF item = NoItem THEN defaultConfig ELSE item

\* The ConfigManager with the item of localStorage it writes.
ConfigManager == [config |-> config, item |-> localStorage]

\* _save(): localStorage.setItem(CONFIG_KEY, JSON.stringify(this.config))
configSave(cm) == [cm EXCEPT !.item = cm.config]

\* addPortal({ id, name })
addPortal(cm, id) == configSave([cm EXCEPT !.config.portals = @ \cup {id}])

\* setActivePortal(portalId)
setActivePortal(cm, portalId) ==
    IF portalId \in cm.config.portals
    THEN configSave([cm EXCEPT !.config.activePortalId = portalId])
    ELSE cm

\* ui.updateSaveButtonState(isDirty): the value btn.disabled gets.
updateSaveButtonState(isDirty) == ~isDirty

\* An onDirty callback that finds no ui and leaves the button as it is.
onDirtyCallbackWithoutUi(before, after, disabled) == disabled

\* onDirtyCallback over one handler that took the store from `before` to
\* `after`: the button's disabled property afterwards.
onDirtyCallback(before, after, disabled) ==
    IF after.onDirtyCalls > before.onDirtyCalls
    THEN updateSaveButtonState(TRUE) ELSE disabled

\* The page has started and has not reloaded.
Loaded == lastOp.name # "new" /\ lastOp.result # "reload"

\* The DOMContentLoaded handler of app.js.  No portal of the configuration
\* has a fileName, so load() is called with undefined and its parameter
\* takes the default 'default'; setActivePortal only sets the id of a
\* portal that exists, so getActivePortal() is not null.
Startup(responses) ==
    /\ lastOp.name = "new"
    /\ \E response \in responses :
        \E r \in {load(Store, "default", response)} :
            /\ SetStore(r.store)
            /\ initialized' = r.success
            /\ errorArea' = IF r.success THEN errorArea ELSE TRUE
            /\ view' = IF r.success THEN render(r.store) ELSE view
            /\ saveBtnDisabled' = updateSaveButtonState(r.store.hasUnsavedChanges)
            /\ lastOp' = Call("startup", <<response>>,
                              IF r.success THEN "success" ELSE "failure")
    /\ config' = configLoad(localStorage)
    /\ UNCHANGED <<now, generated, downloaded, loads, drag, localStorage>>

\* click on #saveChangesBtn, which a disabled button does not receive.
SaveClick ==
    /\ initialized
    /\ ~saveBtnDisabled
    /\ \E r \in {save(Store, config.activePortalId)} :
            /\ SetStore(r.store)
            /\ downloaded' = r.text
            /\ saveBtnDisabled' = updateSaveButtonState(FALSE)
            /\ lastOp' = Call("saveClick", <<config.activePortalId>>, "returned")
    /\ UNCHANGED <<now, generated, view, loads, drag,
                   initialized, errorArea, config, localStorage>>

\* change on #importFileInput, the user confirming the overwrite.
ImportOverwrite ==
    /\ initialized
    /\ CanCall
    /\ \E read \in FileReads :
        \E r \in {importData(Store, read, config.activePortalId)} :
            /\ SetStore(r.store)
            /\ view' = IF r.threw THEN view ELSE render(r.store)
            /\ saveBtnDisabled' = onDirtyCallback(Store, r.store, saveBtnDisabled)
            /\ lastOp' = Call("importOverwrite", <<read, config.activePortalId>>,
                              IF r.threw THEN "threw" ELSE "returned")
    /\ UNCHANGED <<now, generated, downloaded, loads, drag,
                   initialized, errorArea, config, localStorage>>

\* change on #importFileInput, the user declining the overwrite and asking
\* for a new portal made from the file.
ImportCreateNew ==
    /\ initialized
    /\ \E read \in FileReads, t \in Nows :
        \E id \in {CreatedIds[t]} :
        \E cm \in {setActivePortal(addPortal(ConfigManager, id), id)} :
        \E r \in {loadFromFile(Store, read, id)} :
        \E sv \in {save(r.store, id)} :
            /\ now' = t
            /\ config' = cm.config
            /\ localStorage' = cm.item
            /\ SetStore(IF r.threw THEN r.store ELSE sv.store)
            /\ downloaded' = IF r.threw THEN downloaded ELSE sv.text
            /\ initialized' = r.threw
            /\ lastOp' = Call("importCreateNew", <<read, id>>,
                              IF r.threw THEN "failed" ELSE "reload")
    /\ UNCHANGED <<generated, view, loads, drag, errorArea, saveBtnDisabled>>

\* change on #manualLoadInput.  The listener exists once ui.init() has run.
SelectManualFile ==
    /\ Loaded
    /\ \E read \in FileReads :
        \E r \in {IF initialized THEN loadFromFile(Store, read, "default")
                  ELSE [store |-> Store, threw |-> FALSE]} :
            /\ SetStore(r.store)
            /\ errorArea' = IF initialized /\ ~r.threw THEN FALSE ELSE errorArea
            /\ view' = IF initialized /\ ~r.threw THEN render(r.store) ELSE view
            /\ lastOp' = Call("manualLoad", <<read>>,
                              IF ~initialized THEN "unhandled"
                              ELSE IF r.threw THEN "threw" ELSE "returned")
    /\ UNCHANGED <<now, generated, downloaded, loads, drag,
                   initialized, saveBtnDisabled, config, localStorage>>

\* The assignments and the save of the createPortalBtn listener.
createPortal(s, id) ==
    LET a1 == NewArray(s, <<>>)
        s1 == SetPortal(a1.store, id, a1.ref)
        a2 == NewArray(s1, <<>>)
    IN  save([a2.store EXCEPT !.data = a2.ref], id)

\* click on #createPortalBtn of the portal dialog, a name being entered.
CreatePortal ==
    /\ initialized
    /\ \E t \in Nows :
        \E id \in {CreatedIds[t]} :
        \E cm \in {setActivePortal(addPortal(ConfigManager, id), id)} :
        \E sv \in {createPortal(Store, id)} :
            /\ now' = t
            /\ config' = cm.config
            /\ localStorage' = cm.item
            /\ SetStore(sv.store)
            /\ downloaded' = sv.text
            /\ initialized' = FALSE
            /\ lastOp' = Call("createPortal",
                              <<id, config.activePortalId, Categories>>, "reload")
    /\ UNCHANGED <<generated, view, loads, drag, errorArea, saveBtnDisabled>>

\* submit of the category dialog opened by #addCategoryBtn: addCategory,
\* and render() when the dialog closes.
AddCategorySubmit ==
    /\ initialized
    /\ CanCall
    /\ \E title \in Titles, t \in Nows, r \in Randoms :
        \E s \in {addCategory(Store, title, t, r)} :
            /\ SetStore(s)
            /\ generated' = generated (+) BagOfSeq(<<_generateId("cat", t, r)>>)
            /\ now' = t
            /\ view' = render(s)
            /\ saveBtnDisabled' = onDirtyCallback(Store, s, saveBtnDisabled)
            /\ lastOp' = Call("addCategorySubmit", <<title>>, "")
    /\ UNCHANGED <<downloaded, loads, drag,
                   initialized, errorArea, config, localStorage>>

\* click on the delete button of a category of the view, confirmed.
DeleteCategoryClick ==
    /\ initialized
    /\ CanCall
    /\ \E i \in 1..Len(view) :
        \E s \in {deleteCategory(Store, view[i].id)} :
            /\ SetStore(s)
            /\ view' = render(s)
            /\ saveBtnDisabled' = onDirtyCallback(Store, s, saveBtnDisabled)
            /\ lastOp' = Call("deleteCategoryClick", <<view[i].id>>, "")
    /\ UNCHANGED <<now, generated, downloaded, loads, drag,
                   initialized, errorArea, config, localStorage>>

(***************************************************************************)
(* Drag and drop (js/ui.js), in edit mode.  The children of #app-container *)
(* are the <details> of the categories of the view, in order; the children *)
(* of the .link-list of a category are the wrappers of its links, in       *)
(* order, followed by the add-link card.  The placeholder is a child of    *)
(* one of these lists, at a position among its children.                   *)
(***************************************************************************)
\* The placeholder that _handleDragStart has created and not yet inserted.
Detached == [parent |-> "detached", catIndex |-> NoIndex, index |-> NoIndex]

\* The info objects render() binds to the listeners of the <details> and of
\* the link wrappers of the view.
CategoryInfos ==
    {[type |-> "category", catIndex |-> NoIndex, index |-> i - 1] : i \in 1..Len(view)}
LinkInfos ==
    UNION {{[type |-> "link", catIndex |-> i - 1, index |-> j - 1] :
                j \in 1..Len(view[i].links)} : i \in 1..Len(view)}
Infos == CategoryInfos \cup LinkInfos

\* _handleDragOver on one element (e.currentTarget): the placeholder is
\* inserted before or after it among the children of its parent.
handleDragOver(ph, target, before) ==
    IF ph = NoPlaceholder THEN ph
    ELSE [parent   |-> IF target.type = "category" THEN "container" ELSE "links",
          catIndex |-> target.catIndex,
          index    |-> IF before THEN target.index ELSE target.index + 1]

\* children.indexOf(this.placeholder) for the parent of the drop target.
placeholderIndexAt(ph, target) ==
    IF target.type = "category" /\ ph.parent = "container" THEN ph.index
    ELSE IF target.type = "link" /\ ph.parent = "links"
            /\ ph.catIndex = target.catIndex THEN ph.index
    ELSE NoIndex

\* _handleDrop that does not correct toIndex for the removal of the dragged
\* item.
handleDropUncorrected(s, dragged, ph, target) ==
    IF dragged = NoDrag
    THEN [store |-> s, requested |-> "return", toIndex |-> NoIndex,
          rendered |-> FALSE]
    ELSE IF dragged.type = "link" /\ dragged.catIndex # target.catIndex
    THEN [store |-> s, requested |-> "none", toIndex |-> NoIndex,
          rendered |-> FALSE]
    ELSE LET placeholderIndex == placeholderIndexAt(ph, target)
             fromIndex == dragged.index
             toIndex   == IF placeholderIndex # NoIndex THEN placeholderIndex
                          ELSE target.index
         IN  IF fromIndex = toIndex
             THEN [store |-> s, requested |-> "none", toIndex |-> toIndex,
                   rendered |-> TRUE]
             ELSE IF dragged.type = "category"
             THEN [store |-> moveCategory(s, fromIndex, toIndex),
                   requested |-> "moveCategory", toIndex |-> toIndex,
                   rendered |-> TRUE]
             ELSE [store |-> moveLink(s, dragged.catIndex, fromIndex, toIndex),
                   requested |-> "moveLink", toIndex |-> toIndex,
                   rendered |-> TRUE]

\* _handleDrop(e, dropTargetInfo) up to the clean-up: the store afterwards,
\* the method of the store it called ("none": it called none, "return": it
\* returned at once), the toIndex it had computed and whether it reached
\* render().
handleDrop(s, dragged, ph, target) ==
    IF dragged = NoDrag
    THEN [store |-> s, requested |-> "return", toIndex |-> NoIndex,
          rendered |-> FALSE]
    ELSE IF dragged.type = "link" /\ dragged.catIndex # target.catIndex
    THEN [store |-> s, requested |-> "none", toIndex |-> NoIndex,
          rendered |-> FALSE]
    ELSE LET placeholderIndex == placeholderIndexAt(ph, target)
             fromIndex == dragged.index
             toIndex   == IF placeholderIndex # NoIndex
                          THEN IF fromIndex < placeholderIndex
                               THEN placeholderIndex - 1 ELSE placeholderIndex
                          ELSE target.index
         IN  IF fromIndex = toIndex
             THEN [store |-> s, requested |-> "none", toIndex |-> toIndex,
                   rendered |-> TRUE]
             ELSE IF dragged.type = "category"
             THEN [store |-> moveCategory(s, fromIndex, toIndex),
                   requested |-> "moveCategory", toIndex |-> toIndex,
                   rendered |-> TRUE]
             ELSE [store |-> moveLink(s, dragged.catIndex, fromIndex, toIndex),
                   requested |-> "moveLink", toIndex |-> toIndex,
                   rendered |-> TRUE]

\* The info of the <details> that holds the element of the info `info`.
detailsOf(info) ==
    IF info.type = "category" THEN info
    ELSE [type |-> "category", catIndex |-> NoIndex, index |-> info.catIndex]

\* _handleDragStart(e, info): this.draggedInfo = info
handleDragStart(dragged, info) == info

\* dragstart on a <details>, or on a link wrapper, from which the event
\* bubbles to the <details> of its category (stopPropagation is called for
\* a SUMMARY target only): both listeners run, the one of the <details> last.
DragStart ==
    /\ initialized
    /\ CanCall
    /\ \E info \in Infos :
           /\ draggedInfo' =
                  IF info.type = "category" THEN handleDragStart(draggedInfo, info)
                  ELSE handleDragStart(handleDragStart(draggedInfo, info),
                                       detailsOf(info))
           /\ lastOp' = Call("dragstart", <<info>>, "")
    /\ placeholder' = Detached
    /\ UNCHANGED <<objs, arrs, data, allPortals, hasUnsavedChanges, onDirtyCalls,
                   now, generated, downloaded, view, got, loads, shell>>

\* dragover on a <details>, or on a link wrapper, from which the event
\* bubbles to the <details> of its category: both listeners run.
DragOver ==
    /\ draggedInfo # NoDrag
    /\ \E target \in Infos, before \in BOOLEAN, beforeDetails \in BOOLEAN :
           /\ placeholder' =
                  IF target.type = "category"
                  THEN handleDragOver(placeholder, target, before)
                  ELSE handleDragOver(
                           handleDragOver(placeholder, target, before),
                           detailsOf(target), beforeDetails)
           /\ lastOp' = Call("dragover", <<target>>, "")
    /\ UNCHANGED <<objs, arrs, data, allPortals, hasUnsavedChanges, onDirtyCalls,
                   now, generated, downloaded, view, got, loads, draggedInfo, shell>>

\* drop on a <details> or on a link wrapper: _handleDrop, with its clean-up
\* and its render().
Drop ==
    /\ CanCall
    /\ draggedInfo # NoDrag
    /\ \E target \in Infos :
           \E r \in {handleDrop(Store, draggedInfo, placeholder, target)} :
               /\ SetStore(r.store)
               /\ view' = IF r.rendered THEN render(r.store) ELSE view
               /\ saveBtnDisabled' = onDirtyCallback(Store, r.store, saveBtnDisabled)
               /\ lastOp' = Call("drop",
                                 <<draggedInfo, target,
                                   placeholderIndexAt(placeholder, target),
                                   r.toIndex>>,
                                 r.requested)
    /\ draggedInfo' = NoDrag
    /\ placeholder' = NoPlaceholder
    /\ UNCHANGED <<now, generated, downloaded, loads,
                   initialized, errorArea, config, localStorage>>

\* dragend: _cleanupDragStyles().
DragEnd ==
    /\ draggedInfo # NoDrag
    /\ draggedInfo' = NoDrag
    /\ placeholder' = NoPlaceholder
    /\ lastOp' = Call("dragend", <<>>, "")
    /\ UNCHANGED <<objs, arrs, data, allPortals, hasUnsavedChanges, onDirtyCalls,
                   now, generated, downloaded, view, got, loads, shell>>

NextDrag ==
    \/ Startup(Responses)
    \/ DragStart
    \/ DragOver
    \/ Drop
    \/ DragEnd

SpecDrag == Init /\ [][NextDrag]_vars

\* The page: its start and the listeners of the model.
NextPage ==
    \/ Startup(Responses)
    \/ SaveClick
    \/ ImportOverwrite
    \/ ImportCreateNew
    \/ SelectManualFile
    \/ CreatePortal
    \/ AddCategorySubmit
    \/ DeleteCategoryClick

SpecPage == Init /\ [][NextPage]_vars

\* The page and the handlers that keep it: those that write the store or
\* the save button, with the drag handlers.
NextButton ==
    \/ Startup(Documents \cup {FetchRejected})
    \/ SaveClick
    \/ ImportOverwrite
    \/ AddCategorySubmit
    \/ DeleteCategoryClick
    \/ DragStart
    \/ DragOver
    \/ Drop
    \/ DragEnd

SpecButton == Init /\ [][NextButton]_vars

(***************************************************************************)
(* Properties of the drop handler.                                         *)
(***************************************************************************)
\* The step is a drop on the element of the info `target` while an item is
\* being dragged.
DropOn(target) ==
    /\ draggedInfo # NoDrag
    /\ lastOp'.name = "drop"
    /\ lastOp'.args[2] = target

\* The dragged item and the drop target are items of one list.
SameList(dragged, target) ==
    /\ dragged.type = target.type
    /\ dragged.type = "link" => dragged.catIndex = target.catIndex

\* The list of the collection cats that the item of the info `info` is in.
ListOf(cats, info) ==
    IF info.type = "category" THEN cats ELSE cats[info.catIndex + 1].links

\* C25 (as claimed): a drop whose dragged item and drop target are of
\* different types, or are links of different categories, calls neither
\* moveCategory nor moveLink and leaves the collection and hasUnsavedChanges
\* as they were.
C25_MismatchedDropMovesNothing ==
    [][\A target \in Infos :
           (DropOn(target) /\ ~SameList(draggedInfo, target))
               => /\ lastOp'.result = "none"
                  /\ Categories' = Categories
                  /\ hasUnsavedChanges' = hasUnsavedChanges]_vars

\* A drag that was started on the second link of the first category is
\* dropped on that very link wrapper, and the first two categories have
\* changed places.
C25_Witness ==
    /\ lastOp.name = "drop"
    /\ lastOp.result = "moveCategory"
    /\ lastOp.args[1] = [type |-> "category", catIndex |-> NoIndex, index |-> 0]
    /\ lastOp.args[2] = [type |-> "link", catIndex |-> 0, index |-> 1]
    /\ Categories = <<SeedCategories[2], SeedCategories[1], SeedCategories[3]>>
    /\ hasUnsavedChanges

\* C26: for a drop inside one list with the placeholder at the child
\* position p and the dragged item taken from index f, _handleDrop computes
\* the index p - 1 when f < p and p otherwise, calls no move when that index
\* is f and the move of the list otherwise; afterwards the dragged item is
\* immediately before the item that followed the placeholder (last when
\* none followed it) and the other items are in the order they were in.
C26_DropMovesToPlaceholder ==
    [][\A target \in Infos :
           (DropOn(target) /\ SameList(draggedInfo, target)
                /\ placeholderIndexAt(placeholder, target) # NoIndex)
               => LET f   == draggedInfo.index
                      p   == placeholderIndexAt(placeholder, target)
                      to  == IF f < p THEN p - 1 ELSE p
                      old == ListOf(Categories, draggedInfo)
                      new == ListOf(Categories', draggedInfo)
                  IN  /\ lastOp'.args[4] = to
                      /\ lastOp'.result =
                             IF to = f THEN "none"
                             ELSE IF draggedInfo.type = "category"
                             THEN "moveCategory" ELSE "moveLink"
                      /\ to = f => new = old
                      /\ to # f =>
                           \E k \in 1..Len(new) :
                               /\ new[k] = old[f + 1]
                               /\ Remove(new, k) = Remove(old, f + 1)
                               /\ IF p < Len(old)
                                  THEN k < Len(new) /\ new[k + 1] = old[p + 1]
                                  ELSE k = Len(new)]_vars

\* The first category was dropped with the placeholder at the child
\* position 2, after the second category: it is now the second of three.
C26_Witness ==
    /\ lastOp.name = "drop"
    /\ lastOp.result = "moveCategory"
    /\ lastOp.args[1] = [type |-> "category", catIndex |-> NoIndex, index |-> 0]
    /\ lastOp.args[2].type = "category"
    /\ lastOp.args[3] = 2
    /\ lastOp.args[4] = 1
    /\ Categories = <<SeedCategories[2], SeedCategories[1], SeedCategories[3]>>

(***************************************************************************)
(* Properties of the page.                                                 *)
(***************************************************************************)
\* C24 (as claimed): when the load at startup has failed the error area is
\* shown, and a file with a category array that is then selected in the
\* manual-load input is loaded: the collection becomes the content of the
\* file, the error area is hidden and the view is rendered from the store.
C24_ManualLoadAfterFailedStartup ==
    /\ [][(lastOp'.name = "startup" /\ lastOp'.result = "failure")
              => errorArea']_vars
    /\ [][(errorArea /\ lastOp'.name = "manualLoad"
              /\ lastOp'.args[1] = Body(LegacyText))
              => /\ lastOp'.result = "returned"
                 /\ Categories' = SeedCategories
                 /\ ~errorArea'
                 /\ view' = SeedCategories]_vars

\* The load at startup has failed and a file with the three categories was
\* selected in the manual-load input: no listener has handled the selection.
C24_Witness ==
    /\ lastOp = Call("manualLoad", <<Body(LegacyText)>>, "unhandled")
    /\ ~initialized
    /\ errorArea
    /\ Categories = <<>>
    /\ view = <<>>

\* C27 (as claimed): the document that the creation of a portal downloads
\* holds, for the portal that was active until then, exactly the categories
\* the store held immediately before.  (A document without an entry for
\* that portal, and a new portal that got the id of the active one, are
\* not counted here.)
C27_CreatePortalSavesMemory ==
    [][lastOp'.name = "createPortal"
           => LET prev == lastOp'.args[2]
                  doc  == JSONParse(downloaded')
              IN  (prev # lastOp'.args[1] /\ prev \in DOMAIN doc.portals)
                      => doc.portals[prev] = getData(Store)]_vars

\* The first of three loaded categories was deleted and a portal was then
\* created: the downloaded document still holds all three categories for
\* the portal default, and the store counts as saved.
C27_Witness ==
    /\ lastOp.name = "createPortal"
    /\ lastOp.args[2] = "default"
    /\ lastOp.args[3] = SubSeq(SeedCategories, 2, 3)
    /\ JSONParse(downloaded).portals["default"] = SeedCategories
    /\ ~hasUnsavedChanges

\* C28: once the DOMContentLoaded handler has completed, and after every
\* handler that has completed since, the save button is enabled exactly
\* when hasUnsavedChanges is true.
C28_SaveButtonFollowsFlag ==
    lastOp.name # "new" => (saveBtnDisabled = ~hasUnsavedChanges)

\* A category was dropped on another place and moved: the store has
\* unsaved changes and the save button is enabled.
C28_Witness ==
    /\ lastOp.name = "drop"
    /\ lastOp.result = "moveCategory"
    /\ hasUnsavedChanges
    /\ ~saveBtnDisabled

\* C30 (as claimed): when the creation of a portal from a selected file
\* fails because loadFromFile rejects, the configuration that the next
\* page load reads from localStorage is the one it would have read before:
\* no portal was added and the active portal id is the same.
C30_FailedCreateKeepsConfig ==
    [][(lastOp'.name = "importCreateNew" /\ lastOp'.result = "failed")
           => configLoad(localStorage') = configLoad(localStorage)]_vars

\* The file could not be read, and the stored configuration has the new
\* portal and has it as the active one; the store holds what it held.
C30_Witness ==
    /\ lastOp = Call("importCreateNew", <<ReadError, "portal_t1">>, "failed")
    /\ localStorage = [activePortalId |-> "portal_t1",
                       portals |-> {"default", "portal_t1"}]
    /\ config = localStorage
    /\ Categories = SeedCategories
    /\ downloaded = NoText

(***************************************************************************)
(* Files and portals: a document with two portals is loaded, files are     *)
(* loaded or imported for a portal, and the store is saved.                *)
(***************************************************************************)
\* The responses that carry the legacy document and the portals document.
PortalDocuments == {Body(LegacyText), Body(PortalsText)}

NextFile ==
    \/ Load(PortalDocuments)
    \/ LoadFromFile
    \/ ImportData
    \/ Save

SpecFile == Init /\ [][NextFile]_vars

\* The step is a loadFromFile or an importData of a file that holds a
\* category array, called for the portal id P.
ArrayFileLoaded(op, P) ==
    /\ op.name \in {"loadFromFile", "importData"}
    /\ op.result = "returned"
    /\ op.args[1] = P
    /\ op.args[2] = Body(LegacyText)

\* What JSON.parse makes of the categories cats that a document holds.
Written(cats) == JSONParse(JSONStringify(JsonArray(cats))).cats

\* The file load for P replaces the entry of P and the collection, and
\* leaves the categories of every other portal.
FileLoadFrame ==
    \A P \in PortalIds :
        ArrayFileLoaded(lastOp', P)
            => /\ Categories' = SeedCategories
               /\ DOMAIN Portals' = DOMAIN Portals \cup {P}
               /\ Portals'[P] = SeedCategories
               /\ \A q \in DOMAIN Portals \ {P} : Portals'[q] = Portals[q]

\* C29 (as claimed): loadFromFile or importData of an array file for the
\* portal P replaces only the entry of P and the collection, and the
\* categories of every other portal are in the document of the next save.
C29_OtherPortalsInNextSave ==
    /\ [][FileLoadFrame]_vars
    /\ [][\A P \in PortalIds :
              (ArrayFileLoaded(lastOp, P) /\ lastOp'.name = "save")
                  => \A q \in DOMAIN Portals \ {P} :
                         /\ q \in DOMAIN JSONParse(downloaded').portals
                         /\ JSONParse(downloaded').portals[q]
                                = Written(Portals[q])]_vars

\* C29 (amended): the file load for P replaces only the entry of P and the
\* collection; the document of the next save, called for the portal Q,
\* holds the categories of every portal other than P and Q as they were,
\* and for Q the collection, which is the content of the file.
C29_OtherPortalsInNextSaveExceptItsOwn ==
    /\ [][FileLoadFrame]_vars
    /\ [][\A P \in PortalIds :
              (ArrayFileLoaded(lastOp, P) /\ lastOp'.name = "save")
                  => LET Q   == lastOp'.args[1]
                         doc == JSONParse(downloaded').portals
                     IN  /\ DOMAIN doc = DOMAIN Portals \cup {Q}
                         /\ \A q \in DOMAIN Portals \ {P, Q} :
                                doc[q] = Written(Portals[q])
                         /\ doc[P] = Written(SeedCategories)
                         /\ doc[Q] = Written(SeedCategories)]_vars

\* The portals document was loaded and the array file was imported for
\* portal_1: that portal and the collection hold the three categories of
\* the file, and default holds the two categories it had.
C29_Witness ==
    /\ lastOp = Call("importData", <<"portal_1", Body(LegacyText)>>, "returned")
    /\ DOMAIN Portals = PortalIds
    /\ Portals["default"] = SubSeq(SeedCategories, 1, 2)
    /\ Portals["portal_1"] = SeedCategories
    /\ Categories = SeedCategories

====
